---- MODULE Spec2Model ----
(***************************************************************************)
(* A model of the localhost HTTP/1.1 server: the incremental request       *)
(* parser, the response builder and serializer, the session manager, the   *)
(* router and the single-threaded server engine with its readiness poller. *)
(*                                                                         *)
(* Bytes are integers 0..255.  Text constants of the source are written    *)
(* as the sequences of their ASCII codes, with the text in a comment.      *)
(* Option<T> is a sequence of length at most one: None is <<>>, Some(x) is *)
(* <<x>>.                                                                  *)
(***************************************************************************)
EXTENDS Integers, Sequences, FiniteSets, TLC

VARIABLES
    ps_stream,      \* parser harness: the request byte stream being delivered
    ps_rest,        \* parser harness: the bytes of ps_stream not yet passed to add_data
    ps_parser,      \* parser harness: the RequestParser
    ps_last,        \* parser harness: the last call made and what it returned
    rs_response,    \* response harness: the Response being built
    rs_out,         \* response harness: the bytes serialize_auto returned, if called
    rs_last,        \* response harness: the last call made and where the Response came from
    ss_sessions,    \* session manager: the map session id -> Session
    ss_now,         \* session manager: the clock, in seconds
    ss_issued,      \* session manager: every id create_session has returned so far
    ss_calls,       \* session manager: the number of get_or_create_session calls made
    ss_last,        \* session manager: the last call made and what it returned
    backend,        \* engine: the poller the build uses, "kqueue" or "epoll"
    load,           \* engine: the clients there are and the requests they send
    pending,        \* engine: the connections waiting in the listener's backlog
    sm,             \* engine: the ServerManager
    sockets,        \* engine: the client sockets, by descriptor
    time,           \* engine: the clock, in seconds
    requests,       \* engine: the number of requests the clients have begun
    sm_last,        \* engine: the last event and what its handler returned
    vs_servers,     \* virtual hosts: the servers of the configuration
    vs_last,        \* virtual hosts: the last request and the server picked for it
    rt_routes,      \* router: the route map, in the order it is iterated
    rt_last,        \* router: the last call and what it returned
    hd_input,       \* handlers: the call to make and its arguments
    hd_last,        \* handlers: the last call and what it returned
    cg,             \* CGI: the executor, the child and the pipes between them
    pl              \* poller: the interest registered per descriptor and the last calls

ps_vars == <<ps_stream, ps_rest, ps_parser, ps_last>>

rs_vars == <<rs_response, rs_out, rs_last>>

ss_vars == <<ss_sessions, ss_now, ss_issued, ss_calls, ss_last>>

sm_vars == <<backend, load, pending, sm, sockets, time, requests, sm_last>>

vs_vars == <<vs_servers, vs_last>>

rt_vars == <<rt_routes, rt_last>>

hd_vars == <<hd_input, hd_last>>

cg_vars == <<cg>>

pl_vars == <<pl>>

vars == <<ps_vars, rs_vars, ss_vars, sm_vars, vs_vars, rt_vars, hd_vars, cg_vars, pl_vars>>

\* what an action of one part leaves alone: the variables of the other parts
ps_others == <<rs_vars, ss_vars, sm_vars, vs_vars, rt_vars, hd_vars, cg_vars, pl_vars>>

rs_others == <<ps_vars, ss_vars, sm_vars, vs_vars, rt_vars, hd_vars, cg_vars, pl_vars>>

ss_others == <<ps_vars, rs_vars, sm_vars, vs_vars, rt_vars, hd_vars, cg_vars, pl_vars>>

sm_others == <<ps_vars, rs_vars, ss_vars, vs_vars, rt_vars, hd_vars, cg_vars, pl_vars>>

vs_others == <<ps_vars, rs_vars, ss_vars, sm_vars, rt_vars, hd_vars, cg_vars, pl_vars>>

rt_others == <<ps_vars, rs_vars, ss_vars, sm_vars, vs_vars, hd_vars, cg_vars, pl_vars>>

hd_others == <<ps_vars, rs_vars, ss_vars, sm_vars, vs_vars, rt_vars, cg_vars, pl_vars>>

cg_others == <<ps_vars, rs_vars, ss_vars, sm_vars, vs_vars, rt_vars, hd_vars, pl_vars>>

pl_others == <<ps_vars, rs_vars, ss_vars, sm_vars, vs_vars, rt_vars, hd_vars, cg_vars>>

(***************************************************************************)
(* Option and small helpers                                                *)
(***************************************************************************)
None == <<>>

Some(x) == <<x>>

IsSome(o) == o # <<>>

Unwrap(o) == o[1]

Min(S) == CHOOSE x \in S : \A y \in S : x <= y

Max(S) == CHOOSE x \in S : \A y \in S : x >= y

\* s[from..] with a 0-based index, as a Rust slice
DropFirst(s, n) == SubSeq(s, n + 1, Len(s))

\* s[..n] with a 0-based index, as a Rust slice
TakeFirst(s, n) == SubSeq(s, 1, n)

(***************************************************************************)
(* Bytes and text                                                          *)
(***************************************************************************)
\* "\r\n"
CRLF_BYTES == <<13, 10>>

\* char::is_whitespace restricted to ASCII: \t \n \v \f \r and space
IsWhitespace(c) == c \in {9, 10, 11, 12, 13, 32}

\* u8::to_ascii_lowercase
LowerByte(c) == IF c >= 65 /\ c <= 90 THEN c + 32 ELSE c

\* str::to_lowercase on ASCII text
to_lowercase(s) == [i \in 1..Len(s) |-> LowerByte(s[i])]

\* str::eq_ignore_ascii_case
eq_ignore_ascii_case(a, b) == to_lowercase(a) = to_lowercase(b)

\* str::from_utf8 succeeds: the model's alphabet is ASCII plus the byte 255,
\* which no UTF-8 text contains
is_utf8(s) == \A i \in 1..Len(s) : s[i] < 128

\* str::trim
trim(s) ==
    LET keep == {i \in 1..Len(s) : ~IsWhitespace(s[i])}
    IN  IF keep = {} THEN <<>> ELSE SubSeq(s, Min(keep), Max(keep))

\* str::find(char): 0-based index of the first occurrence
find_char(s, c) ==
    LET hits == {i \in 1..Len(s) : s[i] = c}
    IN  IF hits = {} THEN None ELSE Some(Min(hits) - 1)

\* Buffer::find: 0-based index of the first occurrence of pattern
find(data, pattern) ==
    IF pattern = <<>> \/ Len(pattern) > Len(data)
    THEN None
    ELSE LET hits == {i \in 0..(Len(data) - Len(pattern)) :
                         SubSeq(data, i + 1, i + Len(pattern)) = pattern}
         IN  IF hits = {} THEN None ELSE Some(Min(hits))

\* str::split_whitespace collected into a Vec
RECURSIVE split_whitespace(_)
split_whitespace(s) ==
    LET starts == {i \in 1..Len(s) : ~IsWhitespace(s[i])}
    IN  IF starts = {}
        THEN <<>>
        ELSE LET b == Min(starts)
                 ends == {i \in b..Len(s) : IsWhitespace(s[i])}
                 e == IF ends = {} THEN Len(s) + 1 ELSE Min(ends)
             IN  <<SubSeq(s, b, e - 1)>> \o split_whitespace(SubSeq(s, e, Len(s)))

\* the value of a digit in the given radix, or -1
DigitValue(c, radix) ==
    LET v == IF c >= 48 /\ c <= 57 THEN c - 48
             ELSE IF c >= 97 /\ c <= 122 THEN c - 97 + 10
             ELSE IF c >= 65 /\ c <= 90 THEN c - 65 + 10
             ELSE 0 - 1
    IN  IF v >= 0 /\ v < radix THEN v ELSE 0 - 1

RECURSIVE DigitsValue(_, _)
DigitsValue(s, radix) ==
    IF s = <<>> THEN 0
    ELSE DigitsValue(TakeFirst(s, Len(s) - 1), radix) * radix + DigitValue(s[Len(s)], radix)

\* usize::from_str_radix: an optional '+', then at least one digit (the
\* model's texts are far too short to overflow usize)
from_str_radix(s, radix) ==
    LET digits == IF s # <<>> /\ s[1] = 43 THEN DropFirst(s, 1) ELSE s
    IN  IF digits = <<>> \/ \E i \in 1..Len(digits) : DigitValue(digits[i], radix) < 0
        THEN None
        ELSE Some(DigitsValue(digits, radix))

\* str::parse::<usize>
parse_usize(s) == from_str_radix(s, 10)

\* headers::names: the header names the server uses
names ==
    [CONTENT_LENGTH |-> \* "Content-Length"
         <<67, 111, 110, 116, 101, 110, 116, 45, 76, 101, 110, 103, 116, 104>>,
     TRANSFER_ENCODING |-> \* "Transfer-Encoding"
         <<84, 114, 97, 110, 115, 102, 101, 114, 45, 69, 110, 99, 111, 100, 105,
         110, 103>>,
     CONTENT_TYPE |-> \* "Content-Type"
         <<67, 111, 110, 116, 101, 110, 116, 45, 84, 121, 112, 101>>,
     HOST |-> \* "Host"
         <<72, 111, 115, 116>>,
     COOKIE |-> \* "Cookie"
         <<67, 111, 111, 107, 105, 101>>,
     SET_COOKIE |-> \* "Set-Cookie"
         <<83, 101, 116, 45, 67, 111, 111, 107, 105, 101>>,
     CONNECTION |-> \* "Connection"
         <<67, 111, 110, 110, 101, 99, 116, 105, 111, 110>>,
     SERVER |-> \* "Server"
         <<83, 101, 114, 118, 101, 114>>,
     DATE |-> \* "Date"
         <<68, 97, 116, 101>>]

\* other text literals of the source (HTTP_DATE: format_http_date at clock reading 0)
Literal ==
    [CHUNKED |-> \* "chunked"
         <<99, 104, 117, 110, 107, 101, 100>>,
     KEEP_ALIVE |-> \* "keep-alive"
         <<107, 101, 101, 112, 45, 97, 108, 105, 118, 101>>,
     CLOSE |-> \* "close"
         <<99, 108, 111, 115, 101>>,
     SERVER_SOFTWARE |-> \* "localhost/0.1.0"
         <<108, 111, 99, 97, 108, 104, 111, 115, 116, 47, 48, 46, 49, 46, 48>>,
     HTTP_DATE |-> \* "Fri, 01 Jan 1970 12:00:00 GMT"
         <<70, 114, 105, 44, 32, 48, 49, 32, 74, 97, 110, 32, 49, 57, 55, 48,
         32, 49, 50, 58, 48, 48, 58, 48, 48, 32, 71, 77, 84>>,
     SESSION_ID |-> \* "session_id"
         <<115, 101, 115, 115, 105, 111, 110, 95, 105, 100>>,
     PATH_ATTR |-> \* "; Path="
         <<59, 32, 80, 97, 116, 104, 61>>,
     MAX_AGE_ATTR |-> \* "; Max-Age="
         <<59, 32, 77, 97, 120, 45, 65, 103, 101, 61>>,
     HTTP_ONLY_ATTR |-> \* "; HttpOnly"
         <<59, 32, 72, 116, 116, 112, 79, 110, 108, 121>>,
     SLASH |-> \* "/"
         <<47>>,
     CUR_DIR |-> \* "."
         <<46>>,
     PARENT_DIR |-> \* ".."
         <<46, 46>>,
     DOT_SLASH |-> \* "./"
         <<46, 47>>,
     DOT_HTML |-> \* ".html"
         <<46, 104, 116, 109, 108>>,
     TEXT_HTML |-> \* "text/html"
         <<116, 101, 120, 116, 47, 104, 116, 109, 108>>,
     OCTET_STREAM |-> \* "application/octet-stream"
         <<97, 112, 112, 108, 105, 99, 97, 116, 105, 111, 110, 47, 111, 99,
         116, 101, 116, 45, 115, 116, 114, 101, 97, 109>>,
     FORBIDDEN |-> \* "Forbidden"
         <<70, 111, 114, 98, 105, 100, 100, 101, 110>>,
     METHOD_NOT_ALLOWED |-> \* "Method Not Allowed"
         <<77, 101, 116, 104, 111, 100, 32, 78, 111, 116, 32, 65, 108, 108,
         111, 119, 101, 100>>,
     H1_OPEN |-> \* "<h1 class=\"error-code\">"
         <<60, 104, 49, 32, 99, 108, 97, 115, 115, 61, 34, 101, 114, 114,
         111, 114, 45, 99, 111, 100, 101, 34, 62>>,
     H1_CLOSE |-> \* "</h1>"
         <<60, 47, 104, 49, 62>>,
     P_OPEN |-> \* "<p class=\"error-message\">"
         <<60, 112, 32, 99, 108, 97, 115, 115, 61, 34, 101, 114, 114, 111,
         114, 45, 109, 101, 115, 115, 97, 103, 101, 34, 62>>,
     P_CLOSE |-> \* "</p>"
         <<60, 47, 112, 62>>,
     STATUS |-> \* "Status"
         <<83, 116, 97, 116, 117, 115>>,
     LOCALHOST |-> \* "localhost"
         <<108, 111, 99, 97, 108, 104, 111, 115, 116>>,
     LOOPBACK_V4 |-> \* "127.0.0.1"
         <<49, 50, 55, 46, 48, 46, 48, 46, 49>>,
     LOOPBACK_V6 |-> \* "::1"
         <<58, 58, 49>>,
     LOOPBACK_V6_BRACKET |-> \* "[::1]"
         <<91, 58, 58, 49, 93>>,
     CGI_ERROR |-> \* "CGI Error: CGI output missing header separator"
         <<67, 71, 73, 32, 69, 114, 114, 111, 114, 58, 32, 67, 71, 73, 32, 111,
         117, 116, 112, 117, 116, 32, 109, 105, 115, 115, 105, 110, 103, 32,
         104, 101, 97, 100, 101, 114, 32, 115, 101, 112, 97, 114, 97, 116,
         111, 114>>]

(***************************************************************************)
(* Method and Version                                                      *)
(***************************************************************************)
\* Method::from_str: the nine verbs, matched exactly
MethodNames ==
    [GET     |-> <<71, 69, 84>>,
     POST    |-> <<80, 79, 83, 84>>,
     DELETE  |-> <<68, 69, 76, 69, 84, 69>>,
     PUT     |-> <<80, 85, 84>>,
     PATCH   |-> <<80, 65, 84, 67, 72>>,
     HEAD    |-> <<72, 69, 65, 68>>,
     OPTIONS |-> <<79, 80, 84, 73, 79, 78, 83>>,
     TRACE   |-> <<84, 82, 65, 67, 69>>,
     CONNECT |-> <<67, 79, 78, 78, 69, 67, 84>>]

Method_from_str(s) ==
    LET hit == {m \in DOMAIN MethodNames : MethodNames[m] = s}
    IN  IF hit = {} THEN None ELSE Some(CHOOSE m \in hit : TRUE)

\* Method::allows_body
Method_allows_body(m) == m \in {"POST", "PUT", "PATCH"}

\* Version::from_str: "HTTP/0.9", "HTTP/1.0", "HTTP/1.1"
VersionNames ==
    [Http09 |-> <<72, 84, 84, 80, 47, 48, 46, 57>>,
     Http10 |-> <<72, 84, 84, 80, 47, 49, 46, 48>>,
     Http11 |-> <<72, 84, 84, 80, 47, 49, 46, 49>>]

Version_from_str(s) ==
    LET hit == {v \in DOMAIN VersionNames : VersionNames[v] = s}
    IN  IF hit = {} THEN None ELSE Some(CHOOSE v \in hit : TRUE)

\* Version::supports_keep_alive
supports_keep_alive(v) == v \in {"Http10", "Http11"}

(***************************************************************************)
(* Headers: HashMap<String, Vec<String>>, kept here as the sequence of     *)
(* its entries [name, values] in insertion order (names are distinct).     *)
(***************************************************************************)
Headers_new == <<>>

\* Headers::add: push onto the entry of exactly this name
Headers_add(h, name, value) ==
    IF \E i \in 1..Len(h) : h[i].name = name
    THEN [i \in 1..Len(h) |->
             IF h[i].name = name
             THEN [h[i] EXCEPT !.values = Append(@, value)]
             ELSE h[i]]
    ELSE Append(h, [name |-> name, values |-> <<value>>])

\* Headers::set: insert, replacing the entry of exactly this name
Headers_set(h, name, value) ==
    IF \E i \in 1..Len(h) : h[i].name = name
    THEN [i \in 1..Len(h) |->
             IF h[i].name = name THEN [h[i] EXCEPT !.values = <<value>>] ELSE h[i]]
    ELSE Append(h, [name |-> name, values |-> <<value>>])

\* the entries whose name matches case-insensitively
Headers_matching(h, name) ==
    {i \in 1..Len(h) : to_lowercase(h[i].name) = to_lowercase(name)}

\* Headers::get: the first value of an entry matching case-insensitively (of
\* several such entries the map returns whichever it iterates first; the one
\* inserted first is taken here)
Headers_get(h, name) ==
    LET hit == Headers_matching(h, name)
    IN  IF hit = {} THEN None ELSE Some(h[Min(hit)].values[1])

\* Headers::contains
Headers_contains(h, name) == Headers_matching(h, name) # {}

\* Headers::remove: removes one entry matching case-insensitively
Headers_remove(h, name) ==
    LET hit == Headers_matching(h, name)
    IN  IF hit = {} THEN h
        ELSE LET k == Min(hit)
             IN  SubSeq(h, 1, k - 1) \o SubSeq(h, k + 1, Len(h))

\* Headers::from_lines: [ok, headers]
RECURSIVE Headers_from_lines_acc(_, _)
Headers_from_lines_acc(lines, acc) ==
    IF lines = <<>>
    THEN [ok |-> TRUE, headers |-> acc]
    ELSE LET line == Head(lines)
             colon_pos == find_char(line, 58)
         IN  IF ~IsSome(colon_pos)
             THEN [ok |-> FALSE, headers |-> Headers_new]
             ELSE LET name == trim(TakeFirst(line, Unwrap(colon_pos)))
                      value == trim(DropFirst(line, Unwrap(colon_pos) + 1))
                  IN  IF name = <<>>
                      THEN [ok |-> FALSE, headers |-> Headers_new]
                      ELSE Headers_from_lines_acc(Tail(lines), Headers_add(acc, name, value))

Headers_from_lines(lines) == Headers_from_lines_acc(lines, Headers_new)

(***************************************************************************)
(* Request                                                                 *)
(***************************************************************************)
\* Request::new
Request_new(method, target, version) ==
    [method |-> method, target |-> target, version |-> version,
     headers |-> Headers_new, body |-> <<>>]

\* Request::path: the target up to the first '?'
Request_path(r) ==
    LET pos == find_char(r.target, 63)
    IN  IF IsSome(pos) THEN TakeFirst(r.target, Unwrap(pos)) ELSE r.target

\* Request::content_length
Request_content_length(r) ==
    LET v == Headers_get(r.headers, names.CONTENT_LENGTH)
    IN  IF IsSome(v) THEN parse_usize(Unwrap(v)) ELSE None

\* Request::is_chunked
Request_is_chunked(r) ==
    LET v == Headers_get(r.headers, names.TRANSFER_ENCODING)
    IN  IsSome(v) /\ eq_ignore_ascii_case(Unwrap(v), Literal.CHUNKED)

\* Request::should_keep_alive
\* a should_keep_alive that looks at the version only
Request_should_keep_alive_by_version(r) == supports_keep_alive(r.version)

Request_should_keep_alive(r) ==
    LET conn == Headers_get(r.headers, names.CONNECTION)
    IN  IF IsSome(conn)
        THEN eq_ignore_ascii_case(Unwrap(conn), Literal.KEEP_ALIVE)
        ELSE supports_keep_alive(r.version)

(***************************************************************************)
(* RequestParser                                                           *)
(***************************************************************************)
\* the header allowance of add_data before the body state is entered; the
\* source allows 8192 bytes, scaled here to the length of the model's requests
max_header_size == 48

\* ServerError values the parser returns
HttpError(msg) == [kind |-> "HttpError", msg |-> msg]

ParseError(msg) == [kind |-> "ParseError", msg |-> msg]

NoError == [kind |-> "", msg |-> ""]

\* RequestParser::with_max_body_size
with_max_body_size(max_body_size) ==
    [state |-> "RequestLine",
     buffer |-> <<>>,
     request |-> None,
     expected_body_size |-> None,
     header_lines |-> <<>>,
     max_body_size |-> max_body_size,
     current_body_size |-> 0]

\* a check_body_size_limit that lets every declared size through
check_body_size_limit_unchecked(p, size) == TRUE

\* RequestParser::check_body_size_limit: TRUE when it returns Ok
check_body_size_limit(p, size) == ~(size > p.max_body_size)

\* RequestParser::check_would_exceed_limit: TRUE when it returns Ok
check_would_exceed_limit(p, current_size, additional_size) ==
    ~(current_size + additional_size > p.max_body_size)

\* RequestParser::check_current_body_size: TRUE when it returns Ok
check_current_body_size(p, current_size) == ~(current_size > p.max_body_size)

\* Buffer::drain(n) leaves the bytes after the first min(n, len)
drain_rest(buffer, n) == DropFirst(buffer, IF n < Len(buffer) THEN n ELSE Len(buffer))

\* Buffer::drain(n) returns the first min(n, len) bytes
drain_taken(buffer, n) == TakeFirst(buffer, IF n < Len(buffer) THEN n ELSE Len(buffer))

\* RequestParser::add_data: [p, err]
add_data(p, data) ==
    IF p.state \in {"Body", "ChunkedBody"}
    THEN IF check_would_exceed_limit(p, p.current_body_size, Len(p.buffer) + Len(data))
         THEN [p |-> [p EXCEPT !.buffer = @ \o data], err |-> NoError]
         ELSE [p |-> p, err |-> HttpError("would exceed maximum allowed size")]
    ELSE IF Len(p.buffer) + Len(data) > p.max_body_size + max_header_size
         THEN [p |-> p, err |-> HttpError("would exceed maximum allowed size")]
         ELSE [p |-> [p EXCEPT !.buffer = @ \o data], err |-> NoError]

\* RequestParser::parse_request_line: [p, request, err]; request None with no
\* error means more data is needed
parse_request_line(p) ==
    LET crlf_pos == find(p.buffer, CRLF_BYTES)
    IN  IF ~IsSome(crlf_pos)
        THEN [p |-> p, request |-> None, err |-> NoError]
        ELSE LET line == TakeFirst(p.buffer, Unwrap(crlf_pos))
                 q == [p EXCEPT !.buffer = drain_rest(@, Unwrap(crlf_pos) + Len(CRLF_BYTES))]
                 parts == split_whitespace(line)
             IN  IF ~is_utf8(line)
                 THEN [p |-> q, request |-> None,
                       err |-> ParseError("Invalid UTF-8 in request line")]
                 ELSE IF Len(parts) < 2
                 THEN [p |-> q, request |-> None,
                       err |-> ParseError("Invalid request line format")]
                 ELSE IF ~IsSome(Method_from_str(parts[1]))
                 THEN [p |-> q, request |-> None, err |-> ParseError("Invalid method")]
                 ELSE IF Len(parts) >= 3 /\ ~IsSome(Version_from_str(parts[3]))
                 THEN [p |-> q, request |-> None, err |-> ParseError("Invalid version")]
                 ELSE [p |-> q,
                       request |-> Some(Request_new(
                           Unwrap(Method_from_str(parts[1])),
                           parts[2],
                           IF Len(parts) >= 3
                           THEN Unwrap(Version_from_str(parts[3]))
                           ELSE "Http11")),
                       err |-> NoError]

\* RequestParser::parse_headers: [p, done, err]
RECURSIVE parse_headers(_)
parse_headers(p) ==
    LET crlf_pos == find(p.buffer, CRLF_BYTES)
    IN  IF ~IsSome(crlf_pos)
        THEN [p |-> p, done |-> FALSE, err |-> NoError]
        ELSE LET line == TakeFirst(p.buffer, Unwrap(crlf_pos))
                 q == [p EXCEPT !.buffer = drain_rest(@, Unwrap(crlf_pos) + Len(CRLF_BYTES))]
             IN  IF ~is_utf8(line)
                 THEN [p |-> q, done |-> FALSE, err |-> ParseError("Invalid UTF-8 in header")]
                 ELSE IF line = <<>>
                 THEN [p |-> q, done |-> TRUE, err |-> NoError]
                 ELSE parse_headers([q EXCEPT !.header_lines = Append(@, line)])

\* RequestParser::prepare_body_parsing: [p, err]
prepare_body_parsing(p) ==
    IF ~IsSome(p.request)
    THEN [p |-> p, err |-> NoError]
    ELSE LET parsed == Headers_from_lines(p.header_lines)
             request == IF parsed.ok
                        THEN [Unwrap(p.request) EXCEPT !.headers = parsed.headers]
                        ELSE Unwrap(p.request)
             q == [p EXCEPT !.request = Some(request)]
             length == Request_content_length(request)
         IN  IF Request_is_chunked(request)
             THEN [p |-> [q EXCEPT !.state = "ChunkedBody"], err |-> NoError]
             ELSE IF IsSome(length)
             THEN IF check_body_size_limit(q, Unwrap(length))
                  THEN [p |-> [q EXCEPT !.expected_body_size = length], err |-> NoError]
                  ELSE [p |-> q, err |-> HttpError("exceeds maximum allowed size")]
             ELSE IF Method_allows_body(request.method)
             THEN [p |-> [q EXCEPT !.expected_body_size = None], err |-> NoError]
             ELSE [p |-> [q EXCEPT !.expected_body_size = Some(0)], err |-> NoError]

\* the tail shared by both arms of parse_body: drain n bytes into the body
take_body(p, n) ==
    LET body == drain_taken(p.buffer, n)
        q == [p EXCEPT !.buffer = drain_rest(@, n),
                       !.current_body_size = @ + Len(body)]
    IN  IF ~check_current_body_size(q, q.current_body_size)
        THEN [p |-> q, done |-> FALSE, err |-> HttpError("exceeds maximum allowed size")]
        ELSE [p |-> IF IsSome(q.request)
                    THEN [q EXCEPT !.request = Some([Unwrap(@) EXCEPT !.body = body])]
                    ELSE q,
              done |-> TRUE, err |-> NoError]

\* RequestParser::parse_body: [p, done, err]
parse_body(p) ==
    LET available == Len(p.buffer)
        current_size == p.current_body_size
    IN  IF ~check_would_exceed_limit(p, current_size, available)
        THEN [p |-> p, done |-> FALSE, err |-> HttpError("would exceed maximum allowed size")]
        ELSE IF IsSome(p.expected_body_size)
        THEN IF available >= Unwrap(p.expected_body_size)
             THEN take_body(p, Unwrap(p.expected_body_size))
             ELSE [p |-> p, done |-> FALSE, err |-> NoError]
        ELSE IF available > 0
             THEN take_body(p, available)
             ELSE [p |-> p, done |-> FALSE, err |-> NoError]

\* the loop of RequestParser::parse_chunked_body; body is its local Vec
RECURSIVE chunked_loop(_, _)
chunked_loop(p, body) ==
    LET crlf_pos == find(p.buffer, CRLF_BYTES)
    IN  IF ~IsSome(crlf_pos)
        THEN [p |-> p, done |-> FALSE, err |-> NoError]
        ELSE LET line == TakeFirst(p.buffer, Unwrap(crlf_pos))
                 q == [p EXCEPT !.buffer = drain_rest(@, Unwrap(crlf_pos) + Len(CRLF_BYTES))]
                 semi == find_char(line, 59)
                 chunk_size_str == trim(IF IsSome(semi) THEN TakeFirst(line, Unwrap(semi)) ELSE line)
                 chunk_size == from_str_radix(chunk_size_str, 16)
                 current_size == q.current_body_size
             IN  IF ~is_utf8(line)
                 THEN [p |-> q, done |-> FALSE, err |-> ParseError("Invalid UTF-8 in chunk size")]
                 ELSE IF ~IsSome(chunk_size)
                 THEN [p |-> q, done |-> FALSE, err |-> ParseError("Invalid chunk size")]
                 ELSE IF Unwrap(chunk_size) = 0
                 THEN LET r == IF Len(q.buffer) >= Len(CRLF_BYTES)
                               THEN [q EXCEPT !.buffer = drain_rest(@, Len(CRLF_BYTES))]
                               ELSE q
                      IN  IF ~check_current_body_size(r, current_size)
                          THEN [p |-> r, done |-> FALSE,
                                err |-> HttpError("exceeds maximum allowed size")]
                          ELSE [p |-> IF IsSome(r.request)
                                      THEN [r EXCEPT !.request = Some([Unwrap(@) EXCEPT !.body = body])]
                                      ELSE r,
                                done |-> TRUE, err |-> NoError]
                 ELSE IF ~check_would_exceed_limit(q, current_size, Unwrap(chunk_size))
                 THEN [p |-> q, done |-> FALSE,
                       err |-> HttpError("would exceed maximum allowed size")]
                 ELSE IF Len(q.buffer) >= Unwrap(chunk_size) + Len(CRLF_BYTES)
                 THEN LET chunk_data == drain_taken(q.buffer, Unwrap(chunk_size))
                          r == [q EXCEPT
                                   !.buffer = drain_rest(drain_rest(@, Unwrap(chunk_size)),
                                                         Len(CRLF_BYTES)),
                                   !.current_body_size = @ + Len(chunk_data)]
                      IN  chunked_loop(r, body \o chunk_data)
                 ELSE [p |-> q, done |-> FALSE, err |-> NoError]

\* RequestParser::parse_chunked_body: [p, done, err]
parse_chunked_body(p) == chunked_loop(p, <<>>)

\* RequestParser::parse: [p, request, err]; request None with no error is
\* Ok(None), "need more data"
RECURSIVE parse(_)
parse(p) ==
    CASE p.state = "RequestLine" ->
            LET r == parse_request_line(p)
            IN  IF r.err # NoError THEN [p |-> r.p, request |-> None, err |-> r.err]
                ELSE IF IsSome(r.request)
                THEN parse([r.p EXCEPT !.request = r.request, !.state = "Headers"])
                ELSE [p |-> r.p, request |-> None, err |-> NoError]
      [] p.state = "Headers" ->
            LET r == parse_headers(p)
            IN  IF r.err # NoError THEN [p |-> r.p, request |-> None, err |-> r.err]
                ELSE IF r.done
                THEN LET b == prepare_body_parsing([r.p EXCEPT !.state = "Body"])
                     IN  IF b.err # NoError
                         THEN [p |-> b.p, request |-> None, err |-> b.err]
                         ELSE parse(b.p)
                ELSE [p |-> r.p, request |-> None, err |-> NoError]
      [] p.state \in {"Body", "ChunkedBody"} ->
            LET r == IF p.state = "Body" THEN parse_body(p) ELSE parse_chunked_body(p)
            IN  IF r.err # NoError THEN [p |-> r.p, request |-> None, err |-> r.err]
                ELSE IF r.done
                THEN IF IsSome(r.p.request)
                     THEN [p |-> [r.p EXCEPT !.state = "Complete", !.request = None],
                           request |-> r.p.request, err |-> NoError]
                     ELSE parse([r.p EXCEPT !.state = "Complete"])
                ELSE [p |-> r.p, request |-> None, err |-> NoError]
      [] OTHER -> [p |-> p, request |-> None, err |-> NoError]

\* RequestParser::reset
reset(p) ==
    [p EXCEPT !.state = "RequestLine",
              !.buffer = <<>>,
              !.request = None,
              !.expected_body_size = None,
              !.header_lines = <<>>,
              !.current_body_size = 0]

\* an is_body_size_error that takes every error for a body-size error
is_body_size_error_any(e) == TRUE

\* ServerManager::is_body_size_error
is_body_size_error(e) ==
    e.kind = "HttpError"
    /\ e.msg \in {"exceeds maximum allowed size", "would exceed maximum allowed size"}

(***************************************************************************)
(* Request byte streams a client sends                                     *)
(***************************************************************************)
\* the requests a client sends, by name
Stream ==
    [GET |-> \* "GET / HTTP/1.1\r\nHost: a\r\n\r\n"
         <<71, 69, 84, 32, 47, 32, 72, 84, 84, 80, 47, 49, 46, 49, 13, 10, 72,
         111, 115, 116, 58, 32, 97, 13, 10, 13, 10>>,
     POST_SIZED |-> \* "POST / HTTP/1.1\r\nContent-Length: 3\r\n\r\nabc"
         <<80, 79, 83, 84, 32, 47, 32, 72, 84, 84, 80, 47, 49, 46, 49, 13, 10,
         67, 111, 110, 116, 101, 110, 116, 45, 76, 101, 110, 103, 116, 104,
         58, 32, 51, 13, 10, 13, 10, 97, 98, 99>>,
     PUT_TOO_LARGE |-> \* "PUT / HTTP/1.1\r\nContent-Length: 20\r\n\r\naaaaaaaaaaaaaaaaaaaa"
         <<80, 85, 84, 32, 47, 32, 72, 84, 84, 80, 47, 49, 46, 49, 13, 10, 67,
         111, 110, 116, 101, 110, 116, 45, 76, 101, 110, 103, 116, 104, 58,
         32, 50, 48, 13, 10, 13, 10, 97, 97, 97, 97, 97, 97, 97, 97, 97, 97,
         97, 97, 97, 97, 97, 97, 97, 97, 97, 97>>,
     POST_CHUNKED |-> \* "POST / HTTP/1.1\r\nTransfer-Encoding: chunked\r\n\r\n2\r\nxy\r\n0\r\n\r\n"
         <<80, 79, 83, 84, 32, 47, 32, 72, 84, 84, 80, 47, 49, 46, 49, 13, 10,
         84, 114, 97, 110, 115, 102, 101, 114, 45, 69, 110, 99, 111, 100, 105,
         110, 103, 58, 32, 99, 104, 117, 110, 107, 101, 100, 13, 10, 13, 10,
         50, 13, 10, 120, 121, 13, 10, 48, 13, 10, 13, 10>>,
     POST_CHUNKED_TOO_LARGE |-> \* "POST / HTTP/1.1\r\nTransfer-Encoding: chunked\r\n\r\n3\r\nabc\r\n3\r\ndef\r\n0\r\n\r\n"
         <<80, 79, 83, 84, 32, 47, 32, 72, 84, 84, 80, 47, 49, 46, 49, 13, 10,
         84, 114, 97, 110, 115, 102, 101, 114, 45, 69, 110, 99, 111, 100, 105,
         110, 103, 58, 32, 99, 104, 117, 110, 107, 101, 100, 13, 10, 13, 10,
         51, 13, 10, 97, 98, 99, 13, 10, 51, 13, 10, 100, 101, 102, 13, 10,
         48, 13, 10, 13, 10>>,
     POST_CHUNKED_SIZED |-> \* "POST / HTTP/1.1\r\nTransfer-Encoding: chunked\r\nContent-Length: 20\r\n\r\n0\r\n\r\n"
         <<80, 79, 83, 84, 32, 47, 32, 72, 84, 84, 80, 47, 49, 46, 49, 13, 10,
         84, 114, 97, 110, 115, 102, 101, 114, 45, 69, 110, 99, 111, 100, 105,
         110, 103, 58, 32, 99, 104, 117, 110, 107, 101, 100, 13, 10, 67, 111,
         110, 116, 101, 110, 116, 45, 76, 101, 110, 103, 116, 104, 58, 32, 50,
         48, 13, 10, 13, 10, 48, 13, 10, 13, 10>>,
     POST_EMPTY |-> \* "POST / HTTP/1.1\r\n\r\n"
         <<80, 79, 83, 84, 32, 47, 32, 72, 84, 84, 80, 47, 49, 46, 49, 13, 10,
         13, 10>>,
     POST_UNSIZED |-> \* "POST / HTTP/1.1\r\n\r\nab"
         <<80, 79, 83, 84, 32, 47, 32, 72, 84, 84, 80, 47, 49, 46, 49, 13, 10,
         13, 10, 97, 98>>,
     HTTP10 |-> \* "GET / HTTP/1.0\r\n\r\n"
         <<71, 69, 84, 32, 47, 32, 72, 84, 84, 80, 47, 49, 46, 48, 13, 10,
         13, 10>>,
     HTTP09 |-> \* "GET / HTTP/0.9\r\n\r\n"
         <<71, 69, 84, 32, 47, 32, 72, 84, 84, 80, 47, 48, 46, 57, 13, 10,
         13, 10>>,
     NO_VERSION |-> \* "GET /\r\n\r\n"
         <<71, 69, 84, 32, 47, 13, 10, 13, 10>>,
     NO_COLON |-> \* "GET / HTTP/1.1\r\nHost: a\r\nX\r\n\r\n"
         <<71, 69, 84, 32, 47, 32, 72, 84, 84, 80, 47, 49, 46, 49, 13, 10,
         72, 111, 115, 116, 58, 32, 97, 13, 10, 88, 13, 10, 13, 10>>,
     EMPTY_NAME |-> \* "GET / HTTP/1.1\r\n: a\r\n\r\n"
         <<71, 69, 84, 32, 47, 32, 72, 84, 84, 80, 47, 49, 46, 49, 13, 10,
         58, 32, 97, 13, 10, 13, 10>>,
     COLON_VALUE |-> \* "GET / HTTP/1.1\r\nHost: a:1\r\nX:  y \r\n\r\n"
         <<71, 69, 84, 32, 47, 32, 72, 84, 84, 80, 47, 49, 46, 49, 13, 10,
         72, 111, 115, 116, 58, 32, 97, 58, 49, 13, 10, 88, 58, 32, 32, 121,
         32, 13, 10, 13, 10>>,
     GET_KEEP_ALIVE |-> \* "GET / HTTP/1.1\r\nConnection: Keep-Alive\r\n\r\n"
         <<71, 69, 84, 32, 47, 32, 72, 84, 84, 80, 47, 49, 46, 49, 13, 10,
         67, 111, 110, 110, 101, 99, 116, 105, 111, 110, 58, 32, 75, 101,
         101, 112, 45, 65, 108, 105, 118, 101, 13, 10, 13, 10>>,
     GET_CLOSE |-> \* "GET / HTTP/1.1\r\nConnection: close\r\n\r\n"
         <<71, 69, 84, 32, 47, 32, 72, 84, 84, 80, 47, 49, 46, 49, 13, 10,
         67, 111, 110, 110, 101, 99, 116, 105, 111, 110, 58, 32, 99, 108,
         111, 115, 101, 13, 10, 13, 10>>,
     GET_MISSING |-> \* "GET /nope HTTP/1.1\r\n\r\n"
         <<71, 69, 84, 32, 47, 110, 111, 112, 101, 32, 72, 84, 84, 80, 47,
         49, 46, 49, 13, 10, 13, 10>>,
     GET_PARENT |-> \* "GET /a/../x HTTP/1.1\r\n\r\n"
         <<71, 69, 84, 32, 47, 97, 47, 46, 46, 47, 120, 32, 72, 84, 84, 80,
         47, 49, 46, 49, 13, 10, 13, 10>>,
     BAD_METHOD |-> \* "BREW / HTTP/1.1\r\n\r\n"
         <<66, 82, 69, 87, 32, 47, 32, 72, 84, 84, 80, 47, 49, 46, 49, 13, 10,
         13, 10>>,
     MALFORMED |-> \* "GET\r\n\r\n"
         <<71, 69, 84, 13, 10, 13, 10>>,
     BAD_VERSION |-> \* "GET / HTTP/9\r\n\r\n"
         <<71, 69, 84, 32, 47, 32, 72, 84, 84, 80, 47, 57, 13, 10, 13, 10>>,
     BAD_CHUNK |-> \* "POST / HTTP/1.1\r\nTransfer-Encoding: chunked\r\n\r\nZ\r\n"
         <<80, 79, 83, 84, 32, 47, 32, 72, 84, 84, 80, 47, 49, 46, 49, 13,
         10, 84, 114, 97, 110, 115, 102, 101, 114, 45, 69, 110, 99, 111, 100,
         105, 110, 103, 58, 32, 99, 104, 117, 110, 107, 101, 100, 13, 10, 13,
         10, 90, 13, 10>>,
     BAD_UTF8 |-> \* "GET /\xff HTTP/1.1\r\n\r\n"
         <<71, 69, 84, 32, 47, 255, 32, 72, 84, 84, 80, 47, 49, 46, 49, 13,
         10, 13, 10>>,
     POST_NOT_ALLOWED |-> \* "POST /a HTTP/1.1\r\n\r\n"
         <<80, 79, 83, 84, 32, 47, 97, 32, 72, 84, 84, 80, 47, 49, 46, 49,
         13, 10, 13, 10>>,
     PUT_NOT_ALLOWED |-> \* "PUT /a HTTP/1.1\r\nContent-Length: 0\r\n\r\n"
         <<80, 85, 84, 32, 47, 97, 32, 72, 84, 84, 80, 47, 49, 46, 49, 13,
         10, 67, 111, 110, 116, 101, 110, 116, 45, 76, 101, 110, 103, 116,
         104, 58, 32, 48, 13, 10, 13, 10>>,
     GET_MISSING_FILE |-> \* "GET /a/nope HTTP/1.1\r\n\r\n"
         <<71, 69, 84, 32, 47, 97, 47, 110, 111, 112, 101, 32, 72, 84, 84,
         80, 47, 49, 46, 49, 13, 10, 13, 10>>]

Streams == {Stream[k] : k \in DOMAIN Stream}

\* the text of a stream before the blank line that ends its header block
stream_head(stream) == TakeFirst(stream, Unwrap(find(stream, CRLF_BYTES \o CRLF_BYTES)))

RECURSIVE split_lines(_)
split_lines(s) ==
    LET pos == find(s, CRLF_BYTES)
    IN  IF ~IsSome(pos) THEN <<s>>
        ELSE <<TakeFirst(s, Unwrap(pos))>> \o split_lines(DropFirst(s, Unwrap(pos) + 2))

\* the header lines a stream carries after its request line
stream_header_lines(stream) == Tail(split_lines(stream_head(stream)))

\* the stream's header block is well formed (every line has a name and a ':')
stream_headers_ok(stream) == Headers_from_lines(stream_header_lines(stream)).ok

\* the Content-Length the stream declares, if any
stream_content_length(stream) ==
    LET v == Headers_get(Headers_from_lines(stream_header_lines(stream)).headers,
                         names.CONTENT_LENGTH)
    IN  IF IsSome(v) THEN parse_usize(Unwrap(v)) ELSE None

\* the stream declares Transfer-Encoding: chunked
stream_is_chunked(stream) ==
    LET v == Headers_get(Headers_from_lines(stream_header_lines(stream)).headers,
                         names.TRANSFER_ENCODING)
    IN  IsSome(v) /\ eq_ignore_ascii_case(Unwrap(v), Literal.CHUNKED)

(***************************************************************************)
(* The parser driven on its own: a stream is delivered through add_data in *)
(* pieces of any size, parse is called at any point in between, and a      *)
(* parser that completed a request is reset for the next one.  Nothing is  *)
(* called after an error, as the engine drops or answers the connection.   *)
(***************************************************************************)
\* the body cap of the server configuration (client_max_body_size)
max_body_size == 4

PsInit ==
    /\ ps_stream \in Streams
    /\ ps_rest = ps_stream
    /\ ps_parser = with_max_body_size(max_body_size)
    /\ ps_last = [op |-> "new", err |-> NoError, request |-> None,
                  before |-> with_max_body_size(max_body_size)]

\* add_data with the next n bytes of the stream
PsAddData ==
    /\ ps_last.err = NoError
    /\ ps_parser.state # "Complete"
    /\ \E n \in 1..Len(ps_rest) :
          LET r == add_data(ps_parser, TakeFirst(ps_rest, n))
          IN  /\ ps_parser' = r.p
              /\ ps_rest' = DropFirst(ps_rest, n)
              /\ ps_last' = [op |-> "add_data", err |-> r.err, request |-> None,
                             before |-> ps_parser]
    /\ UNCHANGED ps_stream
    /\ UNCHANGED ps_others

PsParse ==
    /\ ps_last.err = NoError
    /\ ps_parser.state # "Complete"
    /\ LET r == parse(ps_parser)
       IN  /\ ps_parser' = r.p
           /\ ps_last' = [op |-> "parse", err |-> r.err, request |-> r.request,
                          before |-> ps_parser]
    /\ UNCHANGED <<ps_stream, ps_rest>>
    /\ UNCHANGED ps_others

\* reset after a completed request; the next request stream follows
PsReset ==
    /\ ps_parser.state = "Complete"
    /\ ps_parser' = reset(ps_parser)
    /\ ps_stream' \in Streams
    /\ ps_rest' = ps_stream'
    /\ ps_last' = [op |-> "reset", err |-> NoError, request |-> None,
                   before |-> ps_parser]
    /\ UNCHANGED ps_others

PsNext == PsAddData \/ PsParse \/ PsReset

(***************************************************************************)
(* StatusCode, Response and ResponseSerializer                             *)
(***************************************************************************)
\* the decimal digits of n, as usize::to_string
RECURSIVE to_string(_)
to_string(n) ==
    IF n < 10 THEN <<48 + n>> ELSE to_string(n \div 10) \o <<48 + (n % 10)>>

\* the lower-case hexadecimal digits of n, as format!("{:x}")
RECURSIVE to_hex(_)
to_hex(n) ==
    LET digit(d) == IF d < 10 THEN 48 + d ELSE 97 + (d - 10)
    IN  IF n < 16 THEN <<digit(n)>> ELSE to_hex(n \div 16) \o <<digit(n % 16)>>

\* StatusCode::is_informational
is_informational(code) == code >= 100 /\ code < 200

\* StatusCode::allows_body
allows_body(code) == ~is_informational(code) /\ code # 204 /\ code # 304

\* StatusCode::reason_phrase
reason_phrase(code) ==
    CASE code = 200 -> \* "OK"
       <<79, 75>>
      [] code = 201 -> \* "Created"
       <<67, 114, 101, 97, 116, 101, 100>>
      [] code = 204 -> \* "No Content"
       <<78, 111, 32, 67, 111, 110, 116, 101, 110, 116>>
      [] code = 301 -> \* "Moved Permanently"
       <<77, 111, 118, 101, 100, 32, 80, 101, 114, 109, 97, 110, 101, 110,
      116, 108, 121>>
      [] code = 302 -> \* "Found"
       <<70, 111, 117, 110, 100>>
      [] code = 304 -> \* "Not Modified"
       <<78, 111, 116, 32, 77, 111, 100, 105, 102, 105, 101, 100>>
      [] code = 400 -> \* "Bad Request"
       <<66, 97, 100, 32, 82, 101, 113, 117, 101, 115, 116>>
      [] code = 403 -> \* "Forbidden"
       <<70, 111, 114, 98, 105, 100, 100, 101, 110>>
      [] code = 404 -> \* "Not Found"
       <<78, 111, 116, 32, 70, 111, 117, 110, 100>>
      [] code = 405 -> \* "Method Not Allowed"
       <<77, 101, 116, 104, 111, 100, 32, 78, 111, 116, 32, 65, 108, 108, 111,
      119, 101, 100>>
      [] code = 413 -> \* "Payload Too Large"
       <<80, 97, 121, 108, 111, 97, 100, 32, 84, 111, 111, 32, 76, 97, 114,
      103, 101>>
      [] code = 500 -> \* "Internal Server Error"
       <<73, 110, 116, 101, 114, 110, 97, 108, 32, 83, 101, 114, 118, 101,
      114, 32, 69, 114, 114, 111, 114>>
      [] code = 501 -> \* "Not Implemented"
       <<78, 111, 116, 32, 73, 109, 112, 108, 101, 109, 101, 110, 116, 101,
      100>>
      [] code = 502 -> \* "Bad Gateway"
       <<66, 97, 100, 32, 71, 97, 116, 101, 119, 97, 121>>
      [] code = 503 -> \* "Service Unavailable"
       <<83, 101, 114, 118, 105, 99, 101, 32, 85, 110, 97, 118, 97, 105, 108,
      97, 98, 108, 101>>
      [] code = 504 -> \* "Gateway Timeout"
       <<71, 97, 116, 101, 119, 97, 121, 32, 84, 105, 109, 101, 111, 117, 116>>
      [] OTHER -> \* "Unknown"
       <<85, 110, 107, 110, 111, 119, 110>>

\* Response::set_default_headers: Server and Date (format_http_date shown
\* for the clock reading 0)
set_default_headers(r) ==
    [r EXCEPT !.headers = Headers_set(Headers_set(@, names.SERVER, Literal.SERVER_SOFTWARE),
                                      names.DATE, Literal.HTTP_DATE)]

\* Response::new
Response_new(version, status) ==
    set_default_headers([version |-> version, status |-> status,
                         headers |-> Headers_new, body |-> <<>>, chunked |-> FALSE])

\* Response::set_content_length
set_content_length(r, length) ==
    [r EXCEPT !.headers = Headers_set(@, names.CONTENT_LENGTH, to_string(length))]

\* Response::set_body; set_body_str passes the bytes of its text to it
set_body(r, body) ==
    LET q == [r EXCEPT !.body = body]
    IN  IF ~q.chunked THEN set_content_length(q, Len(q.body)) ELSE q

\* Response::set_chunked
set_chunked(r) ==
    [r EXCEPT !.chunked = TRUE,
              !.headers = Headers_remove(Headers_set(@, names.TRANSFER_ENCODING, Literal.CHUNKED),
                                         names.CONTENT_LENGTH)]

\* Response::has_body
has_body(r) == allows_body(r.status) /\ r.body # <<>>

\* one header entry as Headers::to_string writes it: a line per value
RECURSIVE header_entry_to_string(_, _)
header_entry_to_string(name, values) ==
    IF values = <<>> THEN <<>>
    ELSE name \o <<58, 32>> \o Head(values) \o CRLF_BYTES
         \o header_entry_to_string(name, Tail(values))

\* Headers::to_string, the map iterated in the given order of its entries
RECURSIVE Headers_to_string(_, _)
Headers_to_string(h, order) ==
    IF order = <<>> THEN <<>>
    ELSE header_entry_to_string(h[Head(order)].name, h[Head(order)].values)
         \o Headers_to_string(h, Tail(order))

\* the orders in which a map of n entries may be iterated
iteration_orders(n) ==
    {o \in [1..n -> 1..n] : \A i, j \in 1..n : i # j => o[i] # o[j]}

\* ResponseSerializer::write_status_line
write_status_line(r) ==
    VersionNames[r.version] \o <<32>> \o to_string(r.status) \o <<32>>
    \o reason_phrase(r.status) \o CRLF_BYTES

\* ResponseSerializer::serialize
serialize(r, order) ==
    write_status_line(r) \o Headers_to_string(r.headers, order) \o CRLF_BYTES
    \o (IF has_body(r) THEN r.body ELSE <<>>)

\* ResponseSerializer::serialize_chunked
serialize_chunked(r, order) ==
    write_status_line(r) \o Headers_to_string(r.headers, order) \o CRLF_BYTES
    \o (IF r.body # <<>>
        THEN to_hex(Len(r.body)) \o CRLF_BYTES \o r.body \o CRLF_BYTES
        ELSE <<>>)
    \o <<48>> \o CRLF_BYTES \o CRLF_BYTES

\* ResponseSerializer::serialize_auto
serialize_auto(r, order) ==
    IF r.chunked THEN serialize_chunked(r, order) ELSE serialize(r, order)

(***************************************************************************)
(* CgiIo: the response built from the output of a CGI script               *)
(***************************************************************************)
\* what a CGI script writes to its standard output, by name
CgiOutput ==
    [PLAIN |-> \* "Content-Type: t\r\n\r\nhi"
         <<67, 111, 110, 116, 101, 110, 116, 45, 84, 121, 112, 101, 58, 32, 116,
         13, 10, 13, 10, 104, 105>>,
     SIZED_CHUNKED |-> \* "Transfer-Encoding: chunked\r\nContent-Length: 1\r\n\r\na"
         <<84, 114, 97, 110, 115, 102, 101, 114, 45, 69, 110, 99, 111, 100, 105,
         110, 103, 58, 32, 99, 104, 117, 110, 107, 101, 100, 13, 10, 67, 111,
         110, 116, 101, 110, 116, 45, 76, 101, 110, 103, 116, 104, 58, 32, 49,
         13, 10, 13, 10, 97>>,
     NO_CONTENT |-> \* "Status: 204 No Content\r\n\r\na"
         <<83, 116, 97, 116, 117, 115, 58, 32, 50, 48, 52, 32, 78, 111, 32, 67,
         111, 110, 116, 101, 110, 116, 13, 10, 13, 10, 97>>,
     NO_SEPARATOR |-> \* "hi\r\n"
         <<104, 105, 13, 10>>]

CgiOutputs == {CgiOutput[k] : k \in DOMAIN CgiOutput}

\* str::lines: split at "\n", a "\r" before it dropped
RECURSIVE lines(_)
lines(s) ==
    LET pos == find_char(s, 10)
    IN  IF s = <<>> THEN <<>>
        ELSE IF ~IsSome(pos) THEN <<s>>
        ELSE LET l == TakeFirst(s, Unwrap(pos))
             IN  <<IF l # <<>> /\ l[Len(l)] = 13 THEN TakeFirst(l, Len(l) - 1) ELSE l>>
                 \o lines(DropFirst(s, Unwrap(pos) + 1))

\* CgiIo::parse_status_header: the status code, None on error
parse_status_header(status_str) ==
    LET parts == split_whitespace(trim(status_str))
        code == IF parts = <<>> THEN None ELSE parse_usize(parts[1])
    IN  IF IsSome(code) /\ Unwrap(code) >= 100 /\ Unwrap(code) <= 599
        THEN code
        ELSE None

\* CgiIo::parse_cgi_output: [ok, response]
parse_cgi_output(output) ==
    LET crlf_len == Len(CRLF_BYTES)
        last == IF Len(output) >= crlf_len * 2 THEN Len(output) - crlf_len * 2 ELSE 0
        ends == {i \in 0..(last - 1) :
                    /\ SubSeq(output, i + 1, i + crlf_len) = CRLF_BYTES
                    /\ SubSeq(output, i + crlf_len + 1, i + crlf_len * 2) = CRLF_BYTES}
        failed(msg) == [ok |-> FALSE, response |-> Response_new("Http11", 500), err |-> msg]
    IN  IF ends = {} THEN failed("CGI output missing header separator")
        ELSE LET header_end == Min(ends)
                 parsed == Headers_from_lines(lines(TakeFirst(output, header_end)))
                 body_start == header_end + crlf_len * 2
                 body == IF body_start < Len(output) THEN DropFirst(output, body_start)
                         ELSE <<>>
                 status_header == Headers_get(parsed.headers, Literal.STATUS)
                 status == IF IsSome(status_header)
                           THEN parse_status_header(Unwrap(status_header))
                           ELSE Some(200)
             IN  IF ~parsed.ok THEN failed("Failed to parse CGI headers")
                 ELSE IF ~IsSome(status) THEN failed("Invalid status code in Status header")
                 ELSE [ok |-> TRUE,
                       response |-> [Response_new("Http11", Unwrap(status))
                                        EXCEPT !.headers = parsed.headers,
                                               !.body = body],
                       err |-> ""]

(***************************************************************************)
(* The Response API driven on its own: a Response is created, its body is  *)
(* set and chunked encoding enabled in any order, or it is built from the  *)
(* output of a CGI script, and it is serialized.                           *)
(***************************************************************************)
Statuses == {100, 200, 204, 304, 404}

\* "", "a", "hi"
Bodies == {<<>>, <<97>>, <<104, 105>>}

RsInit ==
    /\ rs_response = Response_new("Http11", 200)
    /\ rs_out = None
    /\ rs_last = [op |-> "new", cgi |-> FALSE]

RsNew ==
    /\ \E status \in Statuses : rs_response' = Response_new("Http11", status)
    /\ rs_out' = None
    /\ rs_last' = [op |-> "new", cgi |-> FALSE]
    /\ UNCHANGED rs_others

RsSetBody ==
    /\ \E body \in Bodies : rs_response' = set_body(rs_response, body)
    /\ rs_out' = None
    /\ rs_last' = [rs_last EXCEPT !.op = "set_body"]
    /\ UNCHANGED rs_others

\* Response::set_body_str: set_body with the bytes of the text
RsSetBodyStr ==
    /\ \E text \in Bodies : rs_response' = set_body(rs_response, text)
    /\ rs_out' = None
    /\ rs_last' = [rs_last EXCEPT !.op = "set_body_str"]
    /\ UNCHANGED rs_others

RsSetChunked ==
    /\ rs_response' = set_chunked(rs_response)
    /\ rs_out' = None
    /\ rs_last' = [rs_last EXCEPT !.op = "set_chunked"]
    /\ UNCHANGED rs_others

\* CgiHandler::handle: the response parse_cgi_output builds from the script's
\* output, or the 500 response that reports its CgiError
RsCgi ==
    /\ \E output \in CgiOutputs :
          LET r == parse_cgi_output(output)
          IN  rs_response' = IF r.ok THEN r.response
                             ELSE set_body(Response_new("Http11", 500), Literal.CGI_ERROR)
    /\ rs_out' = None
    /\ rs_last' = [op |-> "cgi", cgi |-> TRUE]
    /\ UNCHANGED rs_others

\* ResponseSerializer::serialize_auto, the header map iterated in any order
RsSerialize ==
    /\ \E order \in iteration_orders(Len(rs_response.headers)) :
          rs_out' = Some(serialize_auto(rs_response, order))
    /\ rs_last' = [rs_last EXCEPT !.op = "serialize"]
    /\ UNCHANGED rs_response
    /\ UNCHANGED rs_others

RsNext == RsNew \/ RsSetBody \/ RsSetBodyStr \/ RsSetChunked \/ RsCgi \/ RsSerialize

(***************************************************************************)
(* Session and SessionManager.  Every SystemTime::now() of the source is a *)
(* clock reading passed in by the caller; the clock may advance between    *)
(* two readings of one call.                                               *)
(***************************************************************************)
\* the session lifetime in seconds (DEFAULT_SESSION_TIMEOUT_SECS, scaled)
timeout_secs == 1

\* the last second the clock reaches
MaxClock == 2

\* the number of get_or_create_session calls made
MaxCalls == 3

\* the stack addresses the local hasher of generate_session_id may have are
\* 0..max_stack_addr
max_stack_addr == 1

\* Session::new (data, created_at and last_access, which nothing reads, are
\* left out)
Session_new(id, now) == [id |-> id, expires_at |-> now + timeout_secs]

\* Session::touch
Session_touch(session, now) == [session EXCEPT !.expires_at = now + timeout_secs]

\* Session::is_expired
Session_is_expired(session, now) == now > session.expires_at

\* DefaultHasher::finish after hashing the timestamp and the address: the
\* hasher has fixed keys, so the value is a function of the two; an
\* injective one stands for it
DefaultHasher_finish(timestamp, random) == timestamp * (max_stack_addr + 1) + random

\* SessionManager::generate_session_id: format!("{:x}_{:x}", timestamp, hash)
generate_session_id(timestamp, random) ==
    to_hex(timestamp) \o <<95>> \o to_hex(DefaultHasher_finish(timestamp, random))

\* HashMap::insert: the entry of this key is added or replaced
HashMap_insert(map, key, value) ==
    [k \in DOMAIN map \cup {key} |-> IF k = key THEN value ELSE map[k]]

\* HashMap::remove / retain: the entries whose key is in keep
HashMap_retain(map, keep) == [k \in DOMAIN map \cap keep |-> map[k]]

\* SessionManager::create_session: [sessions, id]; now_id is the clock read
\* by generate_session_id, now_new the clock read by Session::new
create_session(sessions, now_id, now_new, random) ==
    LET session_id == generate_session_id(now_id, random)
    IN  [sessions |-> HashMap_insert(sessions, session_id, Session_new(session_id, now_new)),
         id |-> session_id]

\* a touch_session that drops the session whether it has expired or not
touch_session_dropping(sessions, session_id, now_check, now_touch) ==
    HashMap_retain(sessions, DOMAIN sessions \ {session_id})

\* SessionManager::touch_session
touch_session(sessions, session_id, now_check, now_touch) ==
    IF session_id \in DOMAIN sessions
    THEN IF ~Session_is_expired(sessions[session_id], now_check)
         THEN [sessions EXCEPT ![session_id] = Session_touch(@, now_touch)]
         ELSE HashMap_retain(sessions, DOMAIN sessions \ {session_id})
    ELSE sessions

\* SessionManager::get_or_create_session: [sessions, id, created]; clock is
\* the sequence of the three clock readings the call may make
get_or_create_session(sessions, session_id, clock, random) ==
    IF /\ IsSome(session_id)
       /\ Unwrap(session_id) \in DOMAIN sessions
       /\ ~Session_is_expired(sessions[Unwrap(session_id)], clock[1])
    THEN [sessions |-> touch_session(sessions, Unwrap(session_id), clock[2], clock[3]),
          id |-> Unwrap(session_id), created |-> FALSE]
    ELSE LET r == create_session(sessions, clock[2], clock[3], random)
         IN  [sessions |-> r.sessions, id |-> r.id, created |-> TRUE]

\* SessionManager::cleanup_expired
cleanup_expired(sessions, now) ==
    HashMap_retain(sessions, {k \in DOMAIN sessions : ~Session_is_expired(sessions[k], now)})

(***************************************************************************)
(* The session manager driven on its own: requests arrive with no cookie,  *)
(* with an id issued earlier or with an unknown id; time passes; expired   *)
(* sessions are cleaned up.                                                *)
(***************************************************************************)
\* the session_id cookies a request may carry: none, any id issued so far,
\* and "zz", which was never issued
SessionCookies == {None} \cup {Some(id) : id \in ss_issued \cup {<<122, 122>>}}

\* the clock readings of one call: each is the one before or a second later
ClockReadings ==
    {c \in [1..3 -> ss_now..MaxClock] :
        /\ c[1] = ss_now
        /\ c[2] - c[1] \in {0, 1}
        /\ c[3] - c[2] \in {0, 1}}

\* the record of a call kept for the properties: what was asked, what was
\* returned, and what held of the sessions and ids before the call
SsCall(cookie, clock, r) ==
    [op |-> "get_or_create_session", cookie |-> cookie, id |-> r.id, created |-> r.created,
     count_before |-> Cardinality(DOMAIN ss_sessions),
     live_at_call |-> /\ IsSome(cookie)
                      /\ Unwrap(cookie) \in DOMAIN ss_sessions
                      /\ ~Session_is_expired(ss_sessions[Unwrap(cookie)], clock[1]),
     live_at_touch |-> /\ IsSome(cookie)
                       /\ Unwrap(cookie) \in DOMAIN ss_sessions
                       /\ ~Session_is_expired(ss_sessions[Unwrap(cookie)], clock[2]),
     issued_before |-> r.id \in ss_issued,
     replaced_live |-> /\ r.created
                       /\ r.id \in DOMAIN ss_sessions
                       /\ ~Session_is_expired(ss_sessions[r.id], clock[3])]

SsInit ==
    /\ ss_sessions = [k \in {} |-> 0]
    /\ ss_now = 0
    /\ ss_issued = {}
    /\ ss_calls = 0
    /\ ss_last = [op |-> "new"]

\* process_request: get_or_create_session with the request's cookie
SsGetOrCreateSession ==
    /\ ss_calls < MaxCalls
    /\ ss_calls' = ss_calls + 1
    /\ \E cookie \in SessionCookies, clock \in ClockReadings, random \in 0..max_stack_addr :
          LET r == get_or_create_session(ss_sessions, cookie, clock, random)
          IN  /\ ss_sessions' = r.sessions
              /\ ss_now' = clock[3]
              /\ ss_issued' = IF r.created THEN ss_issued \cup {r.id} ELSE ss_issued
              /\ ss_last' = SsCall(cookie, clock, r)
    /\ UNCHANGED ss_others

\* process_request: the periodic cleanup_expired
SsCleanupExpired ==
    /\ ss_sessions' = cleanup_expired(ss_sessions, ss_now)
    /\ ss_last' = [op |-> "cleanup_expired"]
    /\ UNCHANGED <<ss_now, ss_issued, ss_calls>>
    /\ UNCHANGED ss_others

\* a second passes
SsTick ==
    /\ ss_now < MaxClock
    /\ ss_now' = ss_now + 1
    /\ ss_last' = [op |-> "tick"]
    /\ UNCHANGED <<ss_sessions, ss_issued, ss_calls>>
    /\ UNCHANGED ss_others

SsNext == SsGetOrCreateSession \/ SsCleanupExpired \/ SsTick

(***************************************************************************)
(* Cookie                                                                  *)
(***************************************************************************)
\* str::split at every occurrence of one byte
RECURSIVE split(_, _)
split(s, sep) ==
    LET pos == find_char(s, sep)
    IN  IF ~IsSome(pos) THEN <<s>>
        ELSE <<TakeFirst(s, Unwrap(pos))>> \o split(DropFirst(s, Unwrap(pos) + 1), sep)

\* parse_cookie_header: the name=value pairs in the order of the header (the
\* source inserts them into a map in this order)
parse_cookie_header(cookie_header) ==
    LET raw == split(cookie_header, 59)
        parts == SelectSeq([i \in 1..Len(raw) |-> trim(raw[i])],
                           LAMBDA part : IsSome(find_char(part, 61)))
    IN  [i \in 1..Len(parts) |->
            LET equal_pos == Unwrap(find_char(parts[i], 61))
            IN  [name |-> trim(TakeFirst(parts[i], equal_pos)),
                 value |-> trim(DropFirst(parts[i], equal_pos + 1))]]

\* Request::cookie: the value the map holds for the name, the one inserted last
Request_cookie(r, name) ==
    LET header == Headers_get(r.headers, names.COOKIE)
        cookies == IF IsSome(header) THEN parse_cookie_header(Unwrap(header)) ELSE <<>>
        hit == {i \in 1..Len(cookies) : cookies[i].name = name}
    IN  IF hit = {} THEN None ELSE Some(cookies[Max(hit)].value)

\* Cookie::to_set_cookie_string of a cookie with the attributes process_request
\* sets: path, max_age and http_only
to_set_cookie_string(cookie) ==
    cookie.name \o <<61>> \o cookie.value
    \o (IF IsSome(cookie.path) THEN Literal.PATH_ATTR \o Unwrap(cookie.path) ELSE <<>>)
    \o (IF IsSome(cookie.max_age)
        THEN Literal.MAX_AGE_ATTR \o to_string(Unwrap(cookie.max_age)) ELSE <<>>)
    \o (IF cookie.http_only THEN Literal.HTTP_ONLY_ATTR ELSE <<>>)

\* Response::add_cookie
add_cookie(r, cookie) ==
    [r EXCEPT !.headers = Headers_add(@, names.SET_COOKIE, to_set_cookie_string(cookie))]

\* Response::set_content_type
set_content_type(r, content_type) ==
    [r EXCEPT !.headers = Headers_set(@, names.CONTENT_TYPE, content_type)]

(***************************************************************************)
(* The server configuration and the files under the server root            *)
(***************************************************************************)
\* one server on one port: root "www", a route "/" served from the root
\* with a default file, a route "/a" served from the root too, and a custom
\* page for 404 only.  The maps routes and
\* errors are the sequences of their entries.
config ==
    [port |-> 8080,
     server_name |-> \* "a"
         <<97>>,
     root_path |-> \* "www"
         <<119, 119, 119>>,
     routes |-> <<
       [path |-> \* "/"
         <<47>>,
        methods |-> <<MethodNames.GET, MethodNames.POST, MethodNames.PUT>>,
        filename |-> None,
        directory |-> None,
        default_file |-> Some(\* "index.html"
         <<105, 110, 100, 101, 120, 46, 104, 116, 109, 108>>),
        directory_listing |-> FALSE,
        upload_dir |-> None,
        redirect |-> None,
        cgi_extension |-> None],
       [path |-> \* "/a"
         <<47, 97>>,
        methods |-> <<MethodNames.GET>>,
        filename |-> None,
        directory |-> None,
        default_file |-> None,
        directory_listing |-> FALSE,
        upload_dir |-> None,
        redirect |-> None,
        cgi_extension |-> None]>>,
     errors |-> <<
       [code |-> \* "404"
         <<52, 48, 52>>,
        filename |-> \* "404.html"
         <<52, 48, 52, 46, 104, 116, 109, 108>>]>>]

\* the directories and the files on disk
fs ==
    [dirs |-> {config.root_path},
     files |-> {
       [path |-> \* "www/index.html"
         <<119, 119, 119, 47, 105, 110, 100, 101, 120, 46, 104, 116, 109,
         108>>,
        content |-> \* "hi"
         <<104, 105>>],
       [path |-> \* "www/404.html"
         <<119, 119, 119, 47, 52, 48, 52, 46, 104, 116, 109, 108>>,
        content |-> \* "nf"
         <<110, 102>>]}]

\* Path::is_dir
is_dir(path) == path \in fs.dirs

\* path_utils::is_valid_file: the path exists and is a file
is_valid_file(path) == \E f \in fs.files : f.path = path

\* fs::read of a file that exists
fs_read(path) == (CHOOSE f \in fs.files : f.path = path).content

\* str::starts_with
starts_with(s, prefix) == Len(s) >= Len(prefix) /\ TakeFirst(s, Len(prefix)) = prefix

\* str::ends_with
ends_with(s, suffix) ==
    Len(s) >= Len(suffix) /\ DropFirst(s, Len(s) - Len(suffix)) = suffix

\* PathBuf::join with a relative path
PathBuf_join(base, path) == IF path = <<>> THEN base ELSE base \o Literal.SLASH \o path

(***************************************************************************)
(* Router                                                                  *)
(***************************************************************************)
\* Router::resolve_path
resolve_path(path) ==
    IF starts_with(path, Literal.SLASH) \/ starts_with(path, Literal.DOT_SLASH)
    THEN path
    ELSE PathBuf_join(config.root_path, path)

\* Router::match_route, the loop over the route map: routes is the map as
\* the sequence of its entries in the order the map is iterated, i the entry
\* the loop is at and best_match the index of the best entry so far, if any
RECURSIVE best_match_from(_, _, _, _)
best_match_from(routes, path, i, best_match) ==
    IF i > Len(routes) THEN best_match
    ELSE IF starts_with(path, routes[i].path)
    THEN IF IsSome(best_match)
         THEN IF Len(routes[i].path) > Len(routes[Unwrap(best_match)].path)
              THEN best_match_from(routes, path, i + 1, Some(i))
              ELSE best_match_from(routes, path, i + 1, best_match)
         ELSE best_match_from(routes, path, i + 1, Some(i))
    ELSE best_match_from(routes, path, i + 1, best_match)

\* a match_route that takes the first prefix the loop comes to
Router_match_route_first(routes, path) ==
    LET prefix == {i \in 1..Len(routes) : starts_with(path, routes[i].path)}
    IN  IF prefix # {} THEN Some(Min(prefix)) ELSE None

\* Router::match_route on the route map routes: the index of the route, if
\* any; the exact match first, then the longest route path that is a prefix
Router_match_route(routes, path) ==
    LET exact == {i \in 1..Len(routes) : routes[i].path = path}
    IN  IF exact # {} THEN Some(Min(exact))
        ELSE best_match_from(routes, path, 1, None)

\* Router::match_route of the configured server: the index of the route in
\* config.routes, if any
match_route(request) == Router_match_route(config.routes, Request_path(request))

\* Router::match_route_with_path: the index of the route in config.routes, if
\* any, the route and the route path it was found under; the exact match
\* first, then the longest route path that is a prefix of the request path
\* and ends where the request path ends or where its next byte is "/"
match_route_with_path(request) ==
    LET path == Request_path(request)
        exact == {i \in 1..Len(config.routes) : config.routes[i].path = path}
        aligned(route_path) ==
            \/ Len(path) = Len(route_path)
            \/ path[Len(route_path) + 1] = 47
        prefix == {i \in 1..Len(config.routes) :
                      /\ starts_with(path, config.routes[i].path)
                      /\ aligned(config.routes[i].path)}
        best == {i \in prefix :
                    \A j \in prefix : Len(config.routes[j].path) <= Len(config.routes[i].path)}
    IN  IF exact # {} THEN Some(Min(exact))
        ELSE IF prefix # {} THEN Some(Min(best))
        ELSE None

\* Router::is_method_allowed
is_method_allowed(request, route) ==
    \/ route.methods = <<>>
    \/ \E i \in 1..Len(route.methods) :
          eq_ignore_ascii_case(route.methods[i], MethodNames[request.method])

\* Path::components: the components other than RootDir and CurDir; "." and
\* empty components are dropped by the iterator
components(path) ==
    SelectSeq(split(path, 47), LAMBDA c : c # <<>> /\ c # Literal.CUR_DIR)

\* [&str]::join
RECURSIVE join(_, _)
join(parts, sep) ==
    IF parts = <<>> THEN <<>>
    ELSE IF Len(parts) = 1 THEN parts[1]
    ELSE parts[1] \o sep \o join(Tail(parts), sep)

\* Router::sanitize_path: [ok, path]
sanitize_path(path) ==
    LET cs == components(path)
    IN  IF \E i \in 1..Len(cs) : cs[i] = Literal.PARENT_DIR
        THEN [ok |-> FALSE, path |-> <<>>]
        ELSE [ok |-> TRUE, path |-> join(cs, Literal.SLASH)]

\* Router::resolve_file_path on the route map routes, the sequence of its
\* entries in the order the map is iterated: [ok, path]
Router_resolve_file_path(routes, path, route) ==
    LET joined(base, relative_path) ==
            IF relative_path = <<>> THEN [ok |-> TRUE, path |-> base]
            ELSE LET sanitized == sanitize_path(relative_path)
                 IN  IF ~sanitized.ok THEN sanitized
                     ELSE [ok |-> TRUE, path |-> PathBuf_join(base, sanitized.path)]
    IN  IF IsSome(route.filename)
        THEN [ok |-> TRUE, path |-> resolve_path(Unwrap(route.filename))]
        ELSE IF IsSome(route.directory)
        THEN LET found == {i \in 1..Len(routes) : starts_with(path, routes[i].path)}
                 route_path == IF found = {} THEN Literal.SLASH
                               ELSE routes[Min(found)].path
             IN  joined(resolve_path(Unwrap(route.directory)),
                        IF Len(path) > Len(route_path)
                        THEN DropFirst(path, Len(route_path)) ELSE <<>>)
        ELSE joined(config.root_path,
                    IF path = Literal.SLASH THEN <<>> ELSE DropFirst(path, 1))

\* Router::resolve_file_path of the configured server: [ok, path]
resolve_file_path(request, route) ==
    Router_resolve_file_path(config.routes, Request_path(request), route)

(***************************************************************************)
(* StaticFileHandler and ErrorPageHandler                                  *)
(***************************************************************************)
\* Response::forbidden_with_message, Response::method_not_allowed_with_message
Response_with_message(version, status, message) ==
    set_body(Response_new(version, status), message)

\* StaticFileHandler::get_mime_type, for the extensions of the files on disk
get_mime_type(path) ==
    IF ends_with(to_lowercase(path), Literal.DOT_HTML)
    THEN Literal.TEXT_HTML ELSE Literal.OCTET_STREAM

\* StaticFileHandler::serve_file
serve_file(path, version) ==
    set_body(set_content_type(Response_new(version, 200), get_mime_type(path)),
             fs_read(path))

\* StaticFileHandler::handle: [ok, response]
StaticFileHandler_handle(request) ==
    LET failed == [ok |-> FALSE, response |-> None]
        handled(response) == [ok |-> TRUE, response |-> Some(response)]
        resolved(route, file_path) ==
            IF ~file_path.ok THEN failed
            ELSE IF ~(is_dir(file_path.path) \/ is_valid_file(file_path.path)) THEN failed
            ELSE IF is_dir(file_path.path)
            THEN LET default_path ==
                         PathBuf_join(file_path.path, Unwrap(route.default_file))
                 IN  IF IsSome(route.default_file) /\ is_valid_file(default_path)
                     THEN handled(serve_file(default_path, request.version))
                     ELSE handled(Response_with_message(request.version, 403,
                                                        Literal.FORBIDDEN))
            ELSE handled(serve_file(file_path.path, request.version))
        routed(route) ==
            IF ~is_method_allowed(request, route)
            THEN handled(Response_with_message(request.version, 405,
                                               Literal.METHOD_NOT_ALLOWED))
            ELSE resolved(route, resolve_file_path(request, route))
        matched(route_match) ==
            IF ~IsSome(route_match) THEN failed
            ELSE routed(config.routes[Unwrap(route_match)])
    IN  matched(match_route(request))

\* ErrorPageHandler::generate_default_error_response: the built-in page, of
\* which the two elements of its body are kept
generate_default_error_response(status_code, version) ==
    LET html == Literal.H1_OPEN \o to_string(status_code) \o Literal.H1_CLOSE
                \o Literal.P_OPEN \o reason_phrase(status_code) \o Literal.P_CLOSE
    IN  set_body(set_content_type(Response_new(version, status_code), Literal.TEXT_HTML),
                 html)

\* ErrorPageHandler::create_html_response
create_html_response(version, status_code, content) ==
    set_body(set_content_type(Response_new(version, status_code), Literal.TEXT_HTML),
             content)

\* a generate_error_response that returns the error of a failed read
ErrorPageHandler_generate_error_response_strict(errors, files, unreadable, status_code, version) ==
    LET status_str == to_string(status_code)
        hit == {i \in 1..Len(errors) : errors[i].code = status_str}
        error_path == resolve_path(errors[Min(hit)].filename)
        content == (CHOOSE f \in files : f.path = error_path).content
    IN  IF hit # {} /\ (\E f \in files : f.path = error_path)
        THEN IF error_path \notin unreadable
             THEN [ok |-> TRUE, response |-> create_html_response(version, status_code, content)]
             ELSE [ok |-> FALSE, response |-> None]
        ELSE [ok |-> TRUE, response |-> generate_default_error_response(status_code, version)]

\* ErrorPageHandler::generate_error_response on a server with the error pages
\* errors, where the files files exist and fs::read fails on those of
\* unreadable: [ok, response], the custom page of the status when one is
\* configured and read, or else the built-in page
ErrorPageHandler_generate_error_response(errors, files, unreadable, status_code, version) ==
    LET status_str == to_string(status_code)
        hit == {i \in 1..Len(errors) : errors[i].code = status_str}
        error_path == resolve_path(errors[Min(hit)].filename)
        content == (CHOOSE f \in files : f.path = error_path).content
    IN  IF /\ hit # {}
           /\ \E f \in files : f.path = error_path
           /\ error_path \notin unreadable
        THEN [ok |-> TRUE, response |-> create_html_response(version, status_code, content)]
        ELSE [ok |-> TRUE, response |-> generate_default_error_response(status_code, version)]

\* ErrorPageHandler::generate_error_response of the configured server
generate_error_response(status_code, version) ==
    ErrorPageHandler_generate_error_response(config.errors, fs.files, {},
                                             status_code, version).response

\* ServerManager::handle_with_error_fallback, for the StaticFileHandler
handle_with_error_fallback(request, error_status) ==
    LET fallback(handled) ==
            IF handled.ok THEN Unwrap(handled.response)
            ELSE generate_error_response(error_status, request.version)
    IN  fallback(StaticFileHandler_handle(request))

(***************************************************************************)
(* Poller: the interest the kernel holds for each client descriptor, a     *)
(* subset of {"read", "write"}.  kqueue keeps one filter per direction;    *)
(* epoll keeps one entry per descriptor, whose mask EPOLL_CTL_MOD replaces *)
(* and which EPOLL_CTL_DEL removes whole.                                  *)
(***************************************************************************)
\* the clients of the load of one client
MaxConnections == 1

\* the number of requests the clients send in all
MaxRequests == 2

\* the connection deadline in seconds: Connection::with_port(client_socket,
\* 30, port), scaled
client_timeout_secs == 1

\* process_request runs cleanup_expired every 100 requests, scaled
cleanup_period == 2

\* the size of the scratch buffer handle_read reads into
DEFAULT_BUFFER_SIZE == 8192

\* the descriptors of the clients there may be
Fds == 1..load.clients

\* the descriptor of the listener
listener_fd == 0

\* Poller::register_read
register_read(registered, fd) ==
    [registered EXCEPT ![fd] = IF backend = "kqueue" THEN @ \cup {"read"} ELSE {"read"}]

\* Poller::register_write
register_write(registered, fd) ==
    [registered EXCEPT ![fd] = IF backend = "kqueue" THEN @ \cup {"write"} ELSE {"write"}]

\* Poller::unregister_read
unregister_read(registered, fd) ==
    [registered EXCEPT ![fd] = IF backend = "kqueue" THEN @ \ {"read"} ELSE {}]

\* Poller::unregister_write
unregister_write(registered, fd) ==
    [registered EXCEPT ![fd] = IF backend = "kqueue" THEN @ \ {"write"} ELSE {}]

(***************************************************************************)
(* Connection                                                              *)
(***************************************************************************)
\* Connection::with_port; Timeout::new reads the clock
Connection_with_port(timeout, server_port, clock) ==
    [state |-> "Reading",
     read_buffer |-> <<>>,
     write_buffer |-> <<>>,
     deadline |-> clock + timeout,
     keep_alive |-> FALSE,
     server_port |-> Some(server_port)]

\* Connection::should_keep_alive
should_keep_alive(connection) == connection.keep_alive /\ connection.write_buffer # <<>>

\* an is_timeout that is true only after the deadline
is_timeout_late(connection, clock) == clock > connection.deadline

\* Connection::is_timeout
\* an is_timeout for which no deadline ever passes
is_timeout_never(connection, clock) == FALSE

is_timeout(connection, clock) == clock >= connection.deadline

(***************************************************************************)
(* ServerManager.  S is the manager: its tables connections and parsers,   *)
(* the poller interest it has registered, its session manager's sessions   *)
(* and the CLEANUP_COUNTER of process_request.  env holds what a handler   *)
(* gets from outside: the order in which the response's header map is      *)
(* iterated, whether register_write succeeds, the clock and the address    *)
(* hashed into a session id.  A handler returns [sm, err].                 *)
(***************************************************************************)
\* a close_connection that empties the tables
close_connection_sweep(S, fd) ==
    [S EXCEPT !.registered = unregister_write(unregister_read(@, fd), fd),
              !.connections = HashMap_retain(@, {}),
              !.parsers = HashMap_retain(@, {})]

\* ServerManager::close_connection
\* a close_connection that leaves the parser of the connection behind
close_connection_keeping_parser(S, fd) ==
    [S EXCEPT !.registered = unregister_write(unregister_read(@, fd), fd),
              !.connections = HashMap_retain(@, DOMAIN @ \ {fd})]

close_connection(S, fd) ==
    [S EXCEPT !.registered = unregister_write(unregister_read(@, fd), fd),
              !.connections = HashMap_retain(@, DOMAIN @ \ {fd}),
              !.parsers = HashMap_retain(@, DOMAIN @ \ {fd})]

\* the order in which Headers::to_string iterates a map of n entries: that
\* of insertion, or its reverse
iteration_order(n, reversed) ==
    [i \in 1..n |-> IF reversed THEN n + 1 - i ELSE i]

\* a write_response_to_connection that leaves the connection in Reading
write_response_to_connection_reading(S, fd, response, keep_alive, env) ==
    [sm |-> [S EXCEPT !.connections[fd].keep_alive = keep_alive,
                      !.connections[fd].write_buffer =
                          @ \o serialize_auto(response,
                                              iteration_order(Len(response.headers),
                                                              env.reversed)),
                      !.registered = register_write(@, fd)],
     err |-> NoError]

\* ServerManager::write_response_to_connection
write_response_to_connection(S, fd, response, keep_alive, env) ==
    LET response_bytes ==
            serialize_auto(response, iteration_order(Len(response.headers), env.reversed))
        queued == [S EXCEPT !.connections[fd].keep_alive = keep_alive,
                            !.connections[fd].write_buffer = @ \o response_bytes,
                            !.connections[fd].state = "Writing"]
    IN  IF env.register_ok
        THEN [sm |-> [queued EXCEPT !.registered = register_write(@, fd)], err |-> NoError]
        ELSE [sm |-> queued, err |-> [kind |-> "NetworkError", msg |-> "register"]]

\* a send_error_response that leaves keep-alive enabled
send_error_response_keep_alive(S, fd, status_code, version, env) ==
    write_response_to_connection(S, fd, generate_error_response(status_code, version),
                                 TRUE, env)

\* ServerManager::send_error_response (the connection has a port, and the
\* port has its default server)
send_error_response(S, fd, status_code, version, env) ==
    write_response_to_connection(S, fd, generate_error_response(status_code, version),
                                 FALSE, env)

\* ServerManager::process_request.  The one server configured is the one
\* find_server_for_request returns.  Its route has no redirect, upload_dir,
\* cgi_extension or directory listing, and no request of the model is a
\* DELETE, so of the handlers the StaticFileHandler is the one reached.
\* resolve_file_path failing, the error leaves the function at once.
process_request(S, fd, request, env) ==
    LET resolved(route, file_path) ==
            IF ~file_path.ok THEN None
            ELSE IF is_dir(file_path.path)
            THEN IF /\ IsSome(route.default_file)
                    /\ is_valid_file(PathBuf_join(file_path.path,
                                                  Unwrap(route.default_file)))
                 THEN Some(handle_with_error_fallback(request, 404))
                 ELSE Some(Response_with_message(request.version, 403, Literal.FORBIDDEN))
            ELSE Some(handle_with_error_fallback(request, 404))
        matched(route_match) ==
            IF ~IsSome(route_match)
            THEN Some(generate_error_response(404, request.version))
            ELSE resolved(config.routes[Unwrap(route_match)],
                          resolve_file_path(request, config.routes[Unwrap(route_match)]))
        respond(response, session) ==
            LET cookie == [name |-> Literal.SESSION_ID,
                           value |-> session.id,
                           path |-> Some(Literal.SLASH),
                           max_age |-> Some(timeout_secs),
                           http_only |-> TRUE]
                counter == (S.cleanup_counter + 1) % cleanup_period
                kept == IF counter = 0
                        THEN cleanup_expired(session.sessions, env.clock[3])
                        ELSE session.sessions
            IN  write_response_to_connection(
                    [S EXCEPT !.sessions = kept, !.cleanup_counter = counter],
                    fd, add_cookie(response, cookie),
                    Request_should_keep_alive(request), env)
        handled(response) ==
            IF ~IsSome(response)
            THEN [sm |-> S,
                  err |-> HttpError("Path contains '..' - directory traversal attempt")]
            ELSE respond(Unwrap(response),
                         get_or_create_session(S.sessions,
                                               Request_cookie(request, Literal.SESSION_ID),
                                               env.clock, env.random))
    IN  handled(matched(match_route_with_path(request)))

\* ServerManager::handle_read: [sm, err, request, parsed]; read is what
\* read_non_blocking returned, request the Request the parser yielded, if
\* any, and parsed the error the parser reported, if any
handle_read(S, fd, read, env) ==
    LET result(r, request, e) ==
            [sm |-> r.sm, err |-> r.err, request |-> request, parsed |-> e]
        closed(state, request, e) ==
            [sm |-> close_connection(state, fd), err |-> e, request |-> request,
             parsed |-> e]
        after_process(processed, request) ==
            IF processed.err # NoError
            THEN [sm |-> close_connection(processed.sm, fd), err |-> processed.err,
                  request |-> request, parsed |-> NoError]
            ELSE result(processed, request, NoError)
        after_parse(fed, parsed) ==
            IF parsed.err # NoError
            THEN IF is_body_size_error(parsed.err)
                 THEN result(send_error_response(fed, fd, 413, "Http11", env), None,
                             parsed.err)
                 ELSE closed(fed, None, parsed.err)
            ELSE IF IsSome(parsed.request)
            THEN after_process(process_request(fed, fd, Unwrap(parsed.request), env),
                               parsed.request)
            ELSE [sm |-> fed, err |-> NoError, request |-> None, parsed |-> NoError]
        parse_fed(parsed) == after_parse([S EXCEPT !.parsers[fd] = parsed.p], parsed)
        after_add(added) ==
            IF added.err # NoError
            THEN IF is_body_size_error(added.err)
                 THEN result(send_error_response(S, fd, 413, "Http11", env), None,
                             added.err)
                 ELSE closed(S, None, added.err)
            ELSE parse_fed(parse(added.p))
    IN  IF ~read.ok THEN closed(S, None, [kind |-> "IoError", msg |-> "read"])
        ELSE IF read.data = <<>> THEN closed(S, None, NoError)
        ELSE after_add(add_data(S.parsers[fd], read.data))

\* a handle_write that takes the response for written after any write
handle_write_clearing(S, fd, write) ==
    [sm |-> [S EXCEPT !.connections[fd].write_buffer = <<>>,
                      !.connections[fd].state = "Reading",
                      !.registered = unregister_write(@, fd)],
     err |-> NoError]

\* ServerManager::handle_write: [sm, err]; write is what write_non_blocking
\* returned
handle_write(S, fd, write) ==
    LET written == [S EXCEPT !.connections[fd].write_buffer = drain_rest(@, write.n)]
    IN  IF S.connections[fd].write_buffer = <<>>
        THEN [sm |-> [S EXCEPT !.connections[fd].state = "Reading",
                               !.registered = unregister_write(@, fd)],
              err |-> NoError]
        ELSE IF ~write.ok
        THEN [sm |-> close_connection(S, fd), err |-> [kind |-> "IoError", msg |-> "write"]]
        ELSE IF written.connections[fd].write_buffer = <<>>
        THEN IF should_keep_alive(written.connections[fd])
             THEN [sm |-> [written EXCEPT !.connections[fd].state = "Reading",
                                          !.connections[fd].read_buffer = <<>>,
                                          !.parsers[fd] = reset(@),
                                          !.registered = unregister_write(@, fd)],
                   err |-> NoError]
             ELSE [sm |-> close_connection(written, fd), err |-> NoError]
        ELSE [sm |-> written, err |-> NoError]

\* ServerManager::cleanup_connections
RECURSIVE cleanup_connections(_, _)
cleanup_connections(S, clock) ==
    LET to_remove == {fd \in DOMAIN S.connections : is_timeout(S.connections[fd], clock)}
    IN  IF to_remove = {} THEN S
        ELSE cleanup_connections(close_connection(S, Min(to_remove)), clock)

(***************************************************************************)
(* The engine run by its poller events, with the clients at the other end  *)
(* of the sockets.  A socket is the kernel's side of a client descriptor:  *)
(* inbound holds the bytes the client has sent and the server not yet      *)
(* read, wire the bytes the server has written; unsent is the rest of the  *)
(* request the client is sending, and awaiting tells that the client has   *)
(* sent a request and not yet had the whole response.                      *)
(***************************************************************************)
\* the requests the clients send
Requests ==
    {Stream.GET, Stream.GET_CLOSE, Stream.GET_MISSING, Stream.GET_PARENT,
     Stream.PUT_TOO_LARGE, Stream.POST_CHUNKED_TOO_LARGE, Stream.BAD_METHOD,
     Stream.MALFORMED, Stream.BAD_VERSION, Stream.BAD_CHUNK, Stream.BAD_UTF8,
     Stream.POST_NOT_ALLOWED, Stream.PUT_NOT_ALLOWED, Stream.GET_MISSING_FILE,
     Stream.GET_KEEP_ALIVE}

\* a request is sent whole, or its header block first
SendSizes(stream) == {Len(stream_head(stream)) + 4, Len(stream)}

\* a write takes nothing (it would block), half of the bytes or all of them
WriteSizes(len) == {0, (len + 1) \div 2, len}

\* what the handlers get from outside during one event: the response's
\* header map is iterated in the order of insertion; registering with the
\* poller succeeds or fails; the clock does not advance during the event;
\* the local whose address generate_session_id hashes is at the same depth
\* of the stack in every call, address 0
Envs ==
    [reversed : {FALSE}, register_ok : BOOLEAN, random : {0},
     clock : {<<time, time, time>>}]

\* the descriptors of the connections S no longer holds are closed; the
\* client of a connection whose response has been written whole has it
drop_sockets(socks, S) ==
    [fd \in Fds |->
        IF socks[fd].open /\ fd \notin DOMAIN S.connections
        THEN [socks[fd] EXCEPT !.open = FALSE, !.peer_closed = FALSE,
                               !.awaiting = FALSE, !.unsent = <<>>,
                               !.inbound = <<>>, !.wire = <<>>]
        ELSE IF /\ socks[fd].open /\ socks[fd].wire # <<>>
                /\ S.connections[fd].write_buffer = <<>>
        THEN [socks[fd] EXCEPT !.awaiting = FALSE]
        ELSE socks[fd]]

\* the poller reports an event for fd: a descriptor registered for read has
\* bytes or an end of file to read, or a descriptor registered for write can
\* take bytes
ready(fd) ==
    \/ "read" \in sm.registered[fd] /\ (sockets[fd].inbound # <<>> \/ sockets[fd].peer_closed)
    \/ "write" \in sm.registered[fd]

\* the poller reports a descriptor registered for read as readable although
\* a read of it would block: readiness is a hint, the bytes that caused it
\* may be gone when the read is made
spurious(fd) ==
    "read" \in sm.registered[fd] /\ sockets[fd].inbound = <<>> /\ ~sockets[fd].peer_closed

\* io::read_non_blocking: the results a read of the socket may have, [ok,
\* data]; a read that would block returns Ok(0)
read_non_blocking(socket) ==
    IF socket.inbound # <<>>
    THEN {[ok |-> TRUE, data |-> drain_taken(socket.inbound, DEFAULT_BUFFER_SIZE)]}
    ELSE IF socket.peer_closed
    THEN {[ok |-> TRUE, data |-> <<>>], [ok |-> FALSE, data |-> <<>>]}
    ELSE {[ok |-> TRUE, data |-> <<>>]}

\* io::write_non_blocking: the results a write of buf may have, [ok, n]; a
\* write that would block returns Ok(0), a write to a socket the client has
\* closed may fail
write_non_blocking(socket, buf) ==
    {[ok |-> TRUE, n |-> n] : n \in WriteSizes(Len(buf))}
    \cup (IF socket.peer_closed THEN {[ok |-> FALSE, n |-> 0]} ELSE {})

\* the loads of the model: every client there may be sends any of the
\* requests, or one more client than that and two requests
Load ==
    [ANY_REQUEST |-> [clients |-> MaxConnections, requests |-> Requests],
     TWO_CLIENTS |-> [clients |-> MaxConnections + 1,
                      requests |-> {Stream.GET, Stream.BAD_METHOD}]]

SmInit ==
    /\ backend \in {"kqueue", "epoll"}
    /\ load \in {Load.ANY_REQUEST, Load.TWO_CLIENTS}
    /\ pending = 0
    /\ sm = [connections |-> [fd \in {} |-> 0],
             parsers |-> [fd \in {} |-> 0],
             registered |-> [fd \in {listener_fd} \cup Fds |->
                                IF fd = listener_fd THEN {"read"} ELSE {}],
             sessions |-> [k \in {} |-> 0],
             cleanup_counter |-> 0]
    /\ sockets = [fd \in Fds |->
                     [open |-> FALSE, peer_closed |-> FALSE, awaiting |-> FALSE,
                      unsent |-> <<>>, inbound |-> <<>>, wire |-> <<>>]]
    /\ time = 0
    /\ requests = 0
    /\ sm_last = [op |-> "new"]

\* a client connects: the connection waits in the listener's backlog
ClientConnect ==
    /\ pending < Cardinality({fd \in Fds : ~sockets[fd].open})
    /\ pending' = pending + 1
    /\ sm_last' = [op |-> "client"]
    /\ UNCHANGED <<backend, load, sm, sockets, time, requests>>
    /\ UNCHANGED sm_others

\* a client sends the first piece of a request, or the rest of the request
\* it is sending; it waits for the response before it sends another request
ClientSend ==
    /\ \E fd \in Fds :
          /\ sockets[fd].open /\ ~sockets[fd].peer_closed
          /\ IF sockets[fd].unsent = <<>>
             THEN /\ ~sockets[fd].awaiting
                  /\ requests < MaxRequests
                  /\ requests' = requests + 1
                  /\ \E stream \in load.requests : \E n \in SendSizes(stream) :
                        sockets' = [sockets EXCEPT
                                       ![fd].inbound = @ \o TakeFirst(stream, n),
                                       ![fd].unsent = DropFirst(stream, n),
                                       ![fd].awaiting = TRUE]
             ELSE /\ requests' = requests
                  /\ sockets' = [sockets EXCEPT
                                    ![fd].inbound = @ \o sockets[fd].unsent,
                                    ![fd].unsent = <<>>]
    /\ sm_last' = [op |-> "client"]
    /\ UNCHANGED <<backend, load, pending, sm, time>>
    /\ UNCHANGED sm_others

\* a client closes its end of the connection
ClientClose ==
    /\ \E fd \in Fds :
          /\ sockets[fd].open /\ ~sockets[fd].peer_closed
          /\ sockets' = [sockets EXCEPT ![fd].peer_closed = TRUE, ![fd].unsent = <<>>]
    /\ sm_last' = [op |-> "client"]
    /\ UNCHANGED <<backend, load, pending, sm, time, requests>>
    /\ UNCHANGED sm_others

\* ServerManager::handle_listener_event, accept returning a connection on
\* the lowest free descriptor; register_read succeeds or fails
HandleListenerEvent ==
    /\ "read" \in sm.registered[listener_fd]
    /\ pending > 0
    /\ pending' = pending - 1
    /\ \E register_ok \in BOOLEAN :
          LET client_fd == Min({fd \in Fds : ~sockets[fd].open})
              connection == Connection_with_port(client_timeout_secs, config.port, time)
              parser == with_max_body_size(max_body_size)
              inserted == [sm EXCEPT
                              !.connections = HashMap_insert(@, client_fd, connection),
                              !.parsers = HashMap_insert(@, client_fd, parser)]
              removed == [inserted EXCEPT
                             !.connections = HashMap_retain(@, DOMAIN @ \ {client_fd}),
                             !.parsers = HashMap_retain(@, DOMAIN @ \ {client_fd})]
          IN  /\ sm' = IF register_ok
                       THEN [inserted EXCEPT !.registered = register_read(@, client_fd)]
                       ELSE removed
              /\ sockets' = [sockets EXCEPT ![client_fd] =
                                [open |-> register_ok, peer_closed |-> FALSE,
                                 awaiting |-> FALSE, unsent |-> <<>>,
                                 inbound |-> <<>>, wire |-> <<>>]]
              /\ sm_last' = [op |-> "handle_listener_event", fd |-> client_fd,
                             before |-> sm.connections, ok |-> register_ok]
    /\ UNCHANGED <<backend, load, time, requests>>
    /\ UNCHANGED sm_others

\* ServerManager::handle_client_event for a connection in state Reading:
\* handle_read
HandleRead ==
    /\ \E fd \in DOMAIN sm.connections, env \in Envs :
          /\ sm.connections[fd].state = "Reading"
          /\ ready(fd) \/ spurious(fd)
          /\ \E read \in read_non_blocking(sockets[fd]) :
                LET handled(r) ==
                        /\ sm' = r.sm
                        /\ sockets' = drop_sockets(
                               [sockets EXCEPT
                                   ![fd].inbound = drain_rest(@, Len(read.data))],
                               r.sm)
                        /\ sm_last' = [op |-> "handle_read", fd |-> fd,
                                       before |-> sm.connections, ok |-> r.err = NoError,
                                       request |-> r.request, parsed |-> r.parsed,
                                       would_block |-> spurious(fd)]
                IN  handled(handle_read(sm, fd, read, env))
    /\ UNCHANGED <<backend, load, pending, time, requests>>
    /\ UNCHANGED sm_others

\* ServerManager::handle_client_event for a connection in state Writing:
\* handle_write
HandleWrite ==
    /\ \E fd \in DOMAIN sm.connections :
          /\ sm.connections[fd].state = "Writing"
          /\ ready(fd)
          /\ \E write \in write_non_blocking(sockets[fd], sm.connections[fd].write_buffer) :
                LET handled(r) ==
                        /\ sm' = r.sm
                        /\ sockets' = drop_sockets(
                               [sockets EXCEPT ![fd].wire =
                                   @ \o drain_taken(sm.connections[fd].write_buffer,
                                                    write.n)],
                               r.sm)
                        /\ sm_last' = [op |-> "handle_write", fd |-> fd,
                                       before |-> sm.connections, ok |-> write.ok,
                                       n |-> write.n]
                IN  handled(handle_write(sm, fd, write))
    /\ UNCHANGED <<backend, load, pending, time, requests>>
    /\ UNCHANGED sm_others

\* ServerManager::run: the sweep that ends an iteration of the loop
CleanupConnections ==
    /\ sm' = cleanup_connections(sm, time)
    /\ sockets' = drop_sockets(sockets, sm')
    /\ sm_last' = [op |-> "cleanup_connections", before |-> sm.connections]
    /\ UNCHANGED <<backend, load, pending, time, requests>>
    /\ UNCHANGED sm_others

\* a second passes
Tick ==
    /\ time < MaxClock
    /\ time' = time + 1
    /\ sm_last' = [op |-> "tick"]
    /\ UNCHANGED <<backend, load, pending, sm, sockets, requests>>
    /\ UNCHANGED sm_others

Next ==
    \/ ClientConnect \/ ClientSend \/ ClientClose
    \/ HandleListenerEvent \/ HandleRead \/ HandleWrite \/ CleanupConnections
    \/ Tick

(***************************************************************************)
(* Virtual hosts: the lookup tables ServerManager::new builds from the     *)
(* servers of the configuration, and find_server_for_request.  A server is *)
(* [server_name, ports]; servers are numbered from 1 in the order of the   *)
(* configuration.                                                          *)
(***************************************************************************)
\* the most servers a configuration of the model has
MaxServers == 2

\* the server names of the model
ServerName ==
    [A |-> \* "a"
         <<97>>,
     UPPER_B |-> \* "B"
         <<66>>,
     LOCALHOST |-> \* "localhost"
         <<108, 111, 99, 97, 108, 104, 111, 115, 116>>]

\* the values of the Host header of the model
HostHeader ==
    [A |-> \* "a"
         <<97>>,
     UPPER_A_PORT |-> \* "A:80"
         <<65, 58, 56, 48>>,
     B |-> \* "b"
         <<98>>,
     UNKNOWN |-> \* "c"
         <<99>>,
     LOOPBACK |-> \* "127.0.0.1"
         <<49, 50, 55, 46, 48, 46, 48, 46, 49>>,
     LOCALHOST_PORT |-> \* "localhost:81"
         <<108, 111, 99, 97, 108, 104, 111, 115, 116, 58, 56, 49>>,
     LOOPBACK_V6_PORT |-> \* "[::1]:80"
         <<91, 58, 58, 49, 93, 58, 56, 48>>]

\* the ports of the model
Ports == {80, 81}

\* validator::validate_port_conflicts and validate_server: every server has
\* a port, and the servers that share a port have names that differ when
\* lowercased
validate_config(servers) ==
    /\ \A i \in 1..Len(servers) : servers[i].ports # {}
    /\ \A i, j \in 1..Len(servers) :
          (i # j /\ servers[i].ports \cap servers[j].ports # {})
          => to_lowercase(servers[i].server_name) # to_lowercase(servers[j].server_name)

\* the configurations of the model
Configs ==
    {servers \in UNION {[1..n -> [server_name : {ServerName.A, ServerName.UPPER_B,
                                                 ServerName.LOCALHOST},
                                  ports : SUBSET Ports]] : n \in 1..MaxServers} :
        validate_config(servers)}

\* ServerManager::new: default_servers, the first server that lists the port
default_servers(servers) ==
    [port \in UNION {servers[i].ports : i \in 1..Len(servers)} |->
        Min({i \in 1..Len(servers) : port \in servers[i].ports})]

\* ServerManager::new: server_lookup.get(&(port, hostname)); the table is
\* keyed by the port and the lowercased server name, a later insert
\* replacing an earlier one
server_lookup(servers, port, hostname) ==
    LET hit == {i \in 1..Len(servers) :
                   /\ port \in servers[i].ports
                   /\ to_lowercase(servers[i].server_name) = hostname}
    IN  IF hit = {} THEN None ELSE Some(Max(hit))

\* a find_server_for_request that takes the default server of the port
find_server_for_request_default(request, port, servers) ==
    default_servers(servers)[port]

\* ServerManager::find_server_for_request
find_server_for_request(request, port, servers) ==
    LET matched(host) ==
            LET found(hostname, normalized_hostname) ==
                    IF IsSome(server_lookup(servers, port, normalized_hostname))
                    THEN server_lookup(servers, port, normalized_hostname)
                    ELSE IF normalized_hostname # hostname
                    THEN server_lookup(servers, port, hostname)
                    ELSE None
                normalized(hostname) ==
                    found(hostname,
                          IF hostname \in {Literal.LOOPBACK_V4, Literal.LOOPBACK_V6,
                                           Literal.LOOPBACK_V6_BRACKET}
                          THEN Literal.LOCALHOST ELSE hostname)
            IN  IF IsSome(host)
                THEN normalized(to_lowercase(split(Unwrap(host), 58)[1]))
                ELSE None
        resolved(server_idx) ==
            IF IsSome(server_idx) THEN Unwrap(server_idx)
            ELSE default_servers(servers)[port]
    IN  resolved(matched(Headers_get(request.headers, names.HOST)))

\* a request with the Host header given, if any
request_with_host(host) ==
    IF IsSome(host)
    THEN [Request_new("GET", Literal.SLASH, "Http11") EXCEPT
             !.headers = Headers_add(@, names.HOST, Unwrap(host))]
    ELSE Request_new("GET", Literal.SLASH, "Http11")

VsInit ==
    /\ vs_servers \in Configs
    /\ vs_last = [op |-> "new"]

\* ServerManager::process_request picks the server for a request on a
\* connection accepted on port
VsFindServer ==
    /\ \E port \in DOMAIN default_servers(vs_servers) :
          \E host \in {None} \cup {Some(HostHeader[k]) : k \in DOMAIN HostHeader} :
             vs_last' = [op |-> "find_server_for_request", port |-> port,
                         host |-> host,
                         server |-> find_server_for_request(request_with_host(host),
                                                            port, vs_servers)]
    /\ UNCHANGED vs_servers
    /\ UNCHANGED vs_others

VsNext == VsFindServer

(***************************************************************************)
(* The router on its own: route maps of every iteration order              *)
(***************************************************************************)
\* the most routes of a route map
MaxRoutes == 3

\* the keys the route maps are made of
RoutePath ==
    [ROOT |-> \* "/"
         <<47>>,
     STATIC |-> \* "/static"
         <<47, 115, 116, 97, 116, 105, 99>>,
     IMG |-> \* "/static/img"
         <<47, 115, 116, 97, 116, 105, 99, 47, 105, 109, 103>>]

\* the request paths the router is asked about
RtPaths ==
    {\* "/"
         <<47>>, \* "/static"
         <<47, 115, 116, 97, 116, 105, 99>>, \* "/static/x"
         <<47, 115, 116, 97, 116, 105, 99, 47, 120>>, \* "/staticfiles/x"
         <<47, 115, 116, 97, 116, 105, 99, 102, 105, 108, 101, 115, 47, 120>>, \* "/static/img/y"
         <<47, 115, 116, 97, 116, 105, 99, 47, 105, 109, 103, 47, 121>>,
     \* "/static/../x"
         <<47, 115, 116, 97, 116, 105, 99, 47, 46, 46, 47, 120>>, \* "/other"
         <<47, 111, 116, 104, 101, 114>>, \* "other"
         <<111, 116, 104, 101, 114>>}

\* a route of the configuration: its key and the directory it serves, if any
Route(path, directory) ==
    [path |-> path, methods |-> <<>>, filename |-> None, directory |-> directory,
     default_file |-> None, directory_listing |-> FALSE, upload_dir |-> None,
     redirect |-> None, cgi_extension |-> None]

\* the route maps: up to MaxRoutes routes of distinct keys, in every order a
\* HashMap may iterate them
RouteMaps ==
    LET Routes == {Route(RoutePath[k], d) : k \in DOMAIN RoutePath, d \in {None, Some(\* "d"
         <<100>>)}}
    IN  UNION {{routes \in [1..n -> Routes] :
                   \A i, j \in 1..n : routes[i].path = routes[j].path => i = j}
               : n \in 1..MaxRoutes}

RtInit ==
    /\ rt_routes \in RouteMaps
    /\ rt_last = [op |-> "new"]

\* Router::match_route on a request for path
RtMatchRoute ==
    /\ \E path \in RtPaths :
          rt_last' = [op |-> "match_route", path |-> path,
                      route |-> Router_match_route(rt_routes, path)]
    /\ UNCHANGED rt_routes
    /\ UNCHANGED rt_others

\* Router::resolve_file_path on a request for path and the route matched to it
RtResolveFilePath ==
    /\ \E path \in RtPaths :
          LET route == Router_match_route(rt_routes, path)
          IN  /\ IsSome(route)
              /\ rt_last' = [op |-> "resolve_file_path", path |-> path, route |-> route,
                             file |-> Router_resolve_file_path(rt_routes, path,
                                                               rt_routes[Unwrap(route)])]
    /\ UNCHANGED rt_routes
    /\ UNCHANGED rt_others

RtNext == RtMatchRoute \/ RtResolveFilePath

(***************************************************************************)
(* The choice of a handler and the error pages on their own                *)
(***************************************************************************)
\* the file extensions of the targets and of the configurations
Extension == [PY |-> \* "py"
         <<112, 121>>, TXT |-> \* "txt"
         <<116, 120, 116>>]

\* the keys of a server's cgi_handlers: the extension with its dot
DotExtension == [PY |-> \* ".py"
         <<46, 112, 121>>]

\* the routes a request is matched to: every combination of the fields that
\* process_request looks at
HdRoutes ==
    [methods : {<<>>, <<MethodNames.GET>>},
     redirect : {None, Some(\* "/new"
         <<47, 110, 101, 119>>)},
     upload_dir : {None, Some(\* "up"
         <<117, 112>>)},
     cgi_extension : {None, Some(Extension.PY)},
     directory_listing : BOOLEAN,
     default_file : {None, Some(\* "index.html"
         <<105, 110, 100, 101, 120, 46, 104, 116, 109, 108>>)}]

\* what the file system says of the path resolve_file_path returned for the
\* request: its extension, whether it is a regular file, whether it is a
\* directory, and whether the default file of the route is a regular file
\* in it
HdFiles ==
    {file \in [extension : {None, Some(Extension.PY), Some(Extension.TXT)},
               is_valid_file : BOOLEAN,
               is_dir : BOOLEAN,
               default_is_valid_file : BOOLEAN] :
        /\ ~(file.is_valid_file /\ file.is_dir)
        /\ file.default_is_valid_file => file.is_dir}

\* format!(".{}", ext): the extension as the cgi_handlers are keyed
ext_with_dot(ext) == <<46>> \o ext

\* process_request, the choice of the handler of a request of method method
\* matched to route, on a server with the interpreters cgi_handlers: the
\* handler that is given the request, or the status answered without one
process_request_handler(method, route, file, cgi_handlers) ==
    IF IsSome(route.redirect) THEN "RedirectionHandler"
    ELSE IF method = "DELETE"
    THEN IF is_method_allowed([method |-> method], route)
         THEN "DeleteHandler" ELSE "405"
    ELSE IF IsSome(route.upload_dir) /\ method = "POST" THEN "UploadHandler"
    ELSE LET is_cgi ==
                 \/ IsSome(route.cgi_extension)
                 \/ /\ IsSome(file.extension)
                    /\ ext_with_dot(Unwrap(file.extension)) \in cgi_handlers
         IN  IF is_cgi /\ file.is_valid_file THEN "CgiHandler"
             ELSE IF file.is_dir
             THEN IF route.directory_listing THEN "DirectoryListingHandler"
                  ELSE IF IsSome(route.default_file)
                  THEN IF file.default_is_valid_file
                       THEN "StaticFileHandler(default_file)" ELSE "403"
                  ELSE "403"
             ELSE "StaticFileHandler"

\* the error pages of a server, the files there are and those that cannot
\* be read
HdErrors ==
    {<<>>,
     <<[code |-> \* "404"
         <<52, 48, 52>>, filename |-> \* "404.html"
         <<52, 48, 52, 46, 104, 116, 109, 108>>]>>,
     <<[code |-> \* "404"
         <<52, 48, 52>>, filename |-> \* "gone.html"
         <<103, 111, 110, 101, 46, 104, 116, 109, 108>>]>>,
     <<[code |-> \* "500"
         <<53, 48, 48>>, filename |-> \* "404.html"
         <<52, 48, 52, 46, 104, 116, 109, 108>>],
       [code |-> \* "403"
         <<52, 48, 51>>, filename |-> \* "index.html"
         <<105, 110, 100, 101, 120, 46, 104, 116, 109, 108>>]>>}

\* the calls of process_request: a method, the route matched, what the file
\* system says of the target and the interpreters of the server
HdRequests ==
    [op : {"process_request"}, method : {"GET", "POST", "DELETE"}, route : HdRoutes,
     file : HdFiles, cgi_handlers : {{}, {DotExtension.PY}}]

\* the calls of generate_error_response: the error pages of the server, the
\* files that cannot be read, the status and the version
HdErrorPages ==
    [op : {"generate_error_response"}, errors : HdErrors,
     unreadable : SUBSET {f.path : f \in fs.files},
     status_code : {403, 404, 500}, version : {"Http10", "Http11"}]

\* the header blocks and the bodies a CGI child writes to its stdout
CgiHeaderBlocks ==
    {<<>>, \* "A: b"
         <<65, 58, 32, 98>>, \* "Status: 204 No Content"
         <<83, 116, 97, 116, 117, 115, 58, 32, 50, 48, 52, 32, 78, 111, 32,
         67, 111, 110, 116, 101, 110, 116>>, \* "Status: 404"
         <<83, 116, 97, 116, 117, 115, 58, 32, 52, 48, 52>>,
     \* "A: b\r\nStatus: 201 Created"
         <<65, 58, 32, 98, 13, 10, 83, 116, 97, 116, 117, 115, 58, 32, 50,
         48, 49, 32, 67, 114, 101, 97, 116, 101, 100>>, \* "Status: x"
         <<83, 116, 97, 116, 117, 115, 58, 32, 120>>, \* "Ab"
         <<65, 98>>}

CgiBodies == {<<>>, \* "a"
         <<97>>, \* "a\r\n\r\nb"
         <<97, 13, 10, 13, 10, 98>>, \* "\r\n"
         <<13, 10>>}

\* the calls of parse_cgi_output: the stdout of a child, with the separator
\* between its header block and its body or without it
HdCgiOutputs ==
    [op : {"parse_cgi_output"},
     output : {h \o sep \o b : h \in CgiHeaderBlocks, b \in CgiBodies,
                                sep \in {<<>>, CRLF_BYTES \o CRLF_BYTES}}]

\* the entries a configuration may have in cgi_handlers: extension, interpreter
CgiHandlerEntries ==
    {[ext |-> \* ".py"
         <<46, 112, 121>>, interpreter |-> \* "python3"
         <<112, 121, 116, 104, 111, 110, 51>>],
     [ext |-> \* ".sh"
         <<46, 115, 104>>, interpreter |-> \* "sh"
         <<115, 104>>],
     [ext |-> \* "py"
         <<112, 121>>, interpreter |-> \* "python3"
         <<112, 121, 116, 104, 111, 110, 51>>],
     [ext |-> \* ".pl"
         <<46, 112, 108>>, interpreter |-> <<>>]}

\* validate_server, the cgi_handlers of a server: every extension starts with
\* '.' and no interpreter is empty
validate_cgi_handlers(cgi_handlers) ==
    \A h \in cgi_handlers : starts_with(h.ext, <<46>>) /\ h.interpreter # <<>>

\* the cgi_handlers of the servers that start: one interpreter for an extension
CgiHandlerMaps ==
    {cgi_handlers \in SUBSET CgiHandlerEntries :
        /\ validate_cgi_handlers(cgi_handlers)
        /\ \A g, h \in cgi_handlers : g.ext = h.ext => g = h}

\* the scripts: a path and its extension, if any
Scripts ==
    {[path |-> \* "www/x.py"
         <<119, 119, 119, 47, 120, 46, 112, 121>>, extension |-> Some(Extension.PY)],
     [path |-> \* "www/x.sh"
         <<119, 119, 119, 47, 120, 46, 115, 104>>, extension |-> Some(\* "sh"
         <<115, 104>>)],
     [path |-> \* "www/x.txt"
         <<119, 119, 119, 47, 120, 46, 116, 120, 116>>, extension |-> Some(Extension.TXT)],
     [path |-> \* "www/x"
         <<119, 119, 119, 47, 120>>, extension |-> None]}

\* CgiHandler::get_interpreter: the interpreter cgi_handlers has for the
\* extension of the script, if any
get_interpreter(cgi_handlers, script) ==
    IF IsSome(script.extension)
    THEN LET hit == {h \in cgi_handlers : h.ext = Unwrap(script.extension)}
         IN  IF hit # {} THEN Some((CHOOSE h \in hit : TRUE).interpreter) ELSE None
    ELSE None

\* CgiProcess::spawn: the command of the child and its arguments
spawn(script_path, interpreter) ==
    IF IsSome(interpreter)
    THEN [cmd |-> Unwrap(interpreter), args |-> <<script_path>>]
    ELSE [cmd |-> script_path, args |-> <<>>]

\* the calls that start a CGI child: the cgi_handlers of the server and the
\* script
HdSpawns == [op : {"spawn"}, cgi_handlers : CgiHandlerMaps, script : Scripts]

HdInit ==
    /\ hd_input \in HdRequests \cup HdErrorPages \cup HdCgiOutputs \cup HdSpawns
    /\ hd_last = [op |-> "new"]

\* process_request chooses the handler of a request
HdProcessRequest ==
    /\ hd_input.op = "process_request"
    /\ hd_last' = [op |-> "process_request", method |-> hd_input.method,
                   route |-> hd_input.route, file |-> hd_input.file,
                   cgi_handlers |-> hd_input.cgi_handlers,
                   handler |-> process_request_handler(hd_input.method, hd_input.route,
                                                       hd_input.file,
                                                       hd_input.cgi_handlers)]
    /\ UNCHANGED hd_input
    /\ UNCHANGED hd_others

\* ErrorPageHandler::generate_error_response makes the page of a status
HdGenerateErrorResponse ==
    /\ hd_input.op = "generate_error_response"
    /\ hd_last' = [op |-> "generate_error_response", errors |-> hd_input.errors,
                   unreadable |-> hd_input.unreadable,
                   status_code |-> hd_input.status_code, version |-> hd_input.version,
                   result |-> ErrorPageHandler_generate_error_response(
                                  hd_input.errors, fs.files, hd_input.unreadable,
                                  hd_input.status_code, hd_input.version)]
    /\ UNCHANGED hd_input
    /\ UNCHANGED hd_others

\* CgiIo::parse_cgi_output reads the stdout of a child
HdParseCgiOutput ==
    /\ hd_input.op = "parse_cgi_output"
    /\ hd_last' = [op |-> "parse_cgi_output", output |-> hd_input.output,
                   result |-> parse_cgi_output(hd_input.output)]
    /\ UNCHANGED hd_input
    /\ UNCHANGED hd_others

\* CgiHandler::handle starts the child of a script
HdSpawn ==
    /\ hd_input.op = "spawn"
    /\ hd_last' = [op |-> "spawn", cgi_handlers |-> hd_input.cgi_handlers,
                   script |-> hd_input.script,
                   command |-> spawn(hd_input.script.path,
                                     get_interpreter(hd_input.cgi_handlers,
                                                     hd_input.script))]
    /\ UNCHANGED hd_input
    /\ UNCHANGED hd_others

HdNext == HdProcessRequest \/ HdGenerateErrorResponse \/ HdParseCgiOutput
          \/ HdSpawn

(***************************************************************************)
(* The CGI executor and its child: two processes and three pipes           *)
(***************************************************************************)
\* the bytes a pipe of the operating system holds before a write blocks
PipeCapacity == 2

\* the most bytes of a request body, and of what a child writes to its
\* stdout or to its stderr
MaxCgiBytes == 3

\* CgiExecutor::execute has spawned the child of a request with a body of
\* body bytes: stdin is a pipe when there is a body and /dev/null without
\* one, stdout and stderr are pipes. The child reads its stdin to the end or
\* ignores it, writes stdout bytes and stderr bytes, and exits with exit_code
CgInit ==
    \E body \in 0..MaxCgiBytes, stdout \in 0..MaxCgiBytes, stderr \in 0..MaxCgiBytes,
       reads_stdin \in BOOLEAN, exit_code \in {0, 1} :
       cg = [parent |-> IF body > 0 THEN "write_stdin" ELSE "wait",
             child |-> IF reads_stdin /\ body > 0 THEN "read_stdin" ELSE "write_stdout",
             body |-> body, stdin_open |-> body > 0, stdin |-> 0,
             stdout_left |-> stdout, stdout |-> 0,
             stderr_left |-> stderr, stderr |-> 0,
             exit_code |-> exit_code, result |-> "none"]

\* CgiIo::write_stdin, a write of write_all: some of the body goes into the
\* pipe when it has room; after the last byte stdin is flushed and dropped
CgWriteStdin ==
    /\ cg.parent = "write_stdin"
    /\ cg.child # "exited"
    /\ cg.stdin < PipeCapacity
    /\ \E n \in 1..Min({cg.body, PipeCapacity - cg.stdin}) :
          cg' = [cg EXCEPT !.body = @ - n, !.stdin = @ + n,
                           !.parent = IF cg.body = n THEN "wait" ELSE @,
                           !.stdin_open = cg.body # n]
    /\ UNCHANGED cg_others

\* CgiIo::write_stdin, a write to a pipe nobody will read: the error of the
\* write is returned as a CgiError
CgWriteStdinBroken ==
    /\ cg.parent = "write_stdin"
    /\ cg.child = "exited"
    /\ cg' = [cg EXCEPT !.parent = "returned", !.result = "CgiError",
                        !.stdin_open = FALSE]
    /\ UNCHANGED cg_others

\* CgiProcess::wait returns when the child has exited; execute then reads
\* stderr for a failed child and stdout for the others
CgWait ==
    /\ cg.parent = "wait"
    /\ cg.child = "exited"
    /\ cg' = [cg EXCEPT !.parent = IF cg.exit_code # 0 THEN "read_stderr"
                                   ELSE "read_stdout"]
    /\ UNCHANGED cg_others

\* CgiIo::read_stdout reads the pipe to its end and parses the output
CgReadStdout ==
    /\ cg.parent = "read_stdout"
    /\ cg' = [cg EXCEPT !.stdout = 0, !.parent = "returned",
                        !.result = "Response or CgiError"]
    /\ UNCHANGED cg_others

\* CgiIo::read_stderr reads the pipe to its end; execute returns a CgiError
CgReadStderr ==
    /\ cg.parent = "read_stderr"
    /\ cg' = [cg EXCEPT !.stderr = 0, !.parent = "returned", !.result = "CgiError"]
    /\ UNCHANGED cg_others

\* the child reads from its stdin, and at the end of the file goes on
CgChildRead ==
    /\ cg.child = "read_stdin"
    /\ \/ /\ cg.stdin > 0
          /\ \E n \in 1..cg.stdin : cg' = [cg EXCEPT !.stdin = @ - n]
       \/ /\ cg.stdin = 0 /\ ~cg.stdin_open
          /\ cg' = [cg EXCEPT !.child = "write_stdout"]
    /\ UNCHANGED cg_others

\* the child writes to its stdout when the pipe has room
CgChildWriteStdout ==
    /\ cg.child = "write_stdout"
    /\ \/ /\ cg.stdout_left > 0 /\ cg.stdout < PipeCapacity
          /\ \E n \in 1..Min({cg.stdout_left, PipeCapacity - cg.stdout}) :
                cg' = [cg EXCEPT !.stdout_left = @ - n, !.stdout = @ + n]
       \/ /\ cg.stdout_left = 0
          /\ cg' = [cg EXCEPT !.child = "write_stderr"]
    /\ UNCHANGED cg_others

\* the child writes to its stderr when the pipe has room, and then exits
CgChildWriteStderr ==
    /\ cg.child = "write_stderr"
    /\ \/ /\ cg.stderr_left > 0 /\ cg.stderr < PipeCapacity
          /\ \E n \in 1..Min({cg.stderr_left, PipeCapacity - cg.stderr}) :
                cg' = [cg EXCEPT !.stderr_left = @ - n, !.stderr = @ + n]
       \/ /\ cg.stderr_left = 0
          /\ cg' = [cg EXCEPT !.child = "exited"]
    /\ UNCHANGED cg_others

\* the steps of execute, and those of the child
CgParent == CgWriteStdin \/ CgWriteStdinBroken \/ CgWait \/ CgReadStdout \/ CgReadStderr

CgChild == CgChildRead \/ CgChildWriteStdout \/ CgChildWriteStderr

CgNext == CgParent \/ CgChild

(***************************************************************************)
(* Specifications: each drives one part and leaves the others at rest      *)
(***************************************************************************)
\* the parts at rest in their initial states
PsRest == PsInit /\ ps_stream = Stream.GET

SmRest == SmInit /\ backend = "kqueue" /\ load = Load.ANY_REQUEST

VsRest == VsInit /\ vs_servers = <<[server_name |-> ServerName.A, ports |-> {80}]>>

RtRest == RtInit /\ rt_routes = <<Route(RoutePath.ROOT, None)>>

(***************************************************************************)
(* The poller on its own: the four calls of Poller that add and remove     *)
(* interest in a descriptor, made in any order on a few descriptors. On    *)
(* the kqueue build a descriptor has one filter per direction; on the      *)
(* epoll build it has one entry, whose event mask a registration replaces  *)
(* and which an unregistration deletes.                                    *)
(***************************************************************************)
MaxPollerFds == 2

PollerFds == 1..MaxPollerFds

\* the calls the log keeps: the last two
poller_log(log, call) == IF Len(log) < 2 THEN Append(log, call) ELSE <<log[2], call>>

PlInit ==
    pl = [registered |-> [fd \in PollerFds |-> {}], log |-> <<>>]

\* the poller after a call that left it with these registrations
poller_called(op, fd, registered) ==
    [registered |-> registered,
     log |-> poller_log(pl.log, [op |-> op, fd |-> fd, before |-> pl.registered[fd]])]

\* Poller::register_read
PlRegisterRead ==
    /\ \E fd \in PollerFds :
          pl' = poller_called("register_read", fd, register_read(pl.registered, fd))
    /\ UNCHANGED pl_others

\* Poller::register_write
PlRegisterWrite ==
    /\ \E fd \in PollerFds :
          pl' = poller_called("register_write", fd, register_write(pl.registered, fd))
    /\ UNCHANGED pl_others

\* Poller::unregister_read
PlUnregisterRead ==
    /\ \E fd \in PollerFds :
          pl' = poller_called("unregister_read", fd, unregister_read(pl.registered, fd))
    /\ UNCHANGED pl_others

\* Poller::unregister_write
PlUnregisterWrite ==
    /\ \E fd \in PollerFds :
          pl' = poller_called("unregister_write", fd, unregister_write(pl.registered, fd))
    /\ UNCHANGED pl_others

PlNext == PlRegisterRead \/ PlRegisterWrite \/ PlUnregisterRead \/ PlUnregisterWrite

PlRest == PlInit

CgRest == CgInit /\ cg.body = 0 /\ cg.stdout_left = 0 /\ cg.stderr_left = 0
          /\ cg.exit_code = 0 /\ cg.child = "write_stdout"

HdRest ==
    /\ HdInit
    /\ hd_input = [op |-> "generate_error_response", errors |-> <<>>, unreadable |-> {},
                   status_code |-> 404, version |-> "Http11"]

ParserInit == PsInit /\ RsInit /\ SsInit /\ SmRest /\ VsRest /\ RtRest /\ HdRest /\ CgRest /\ PlRest

ParserSpec == ParserInit /\ [][PsNext]_vars

ResponseInit == RsInit /\ PsRest /\ SsInit /\ SmRest /\ VsRest /\ RtRest /\ HdRest /\ CgRest /\ PlRest

ResponseSpec == ResponseInit /\ [][RsNext]_vars

SessionInit == SsInit /\ PsRest /\ RsInit /\ SmRest /\ VsRest /\ RtRest /\ HdRest /\ CgRest /\ PlRest

SessionSpec == SessionInit /\ [][SsNext]_vars

Init == SmInit /\ load = Load.ANY_REQUEST /\ PsRest /\ RsInit /\ SsInit /\ VsRest /\ RtRest /\ HdRest /\ CgRest /\ PlRest

Spec == Init /\ [][Next]_vars

FrameInit ==
    SmInit /\ backend = "kqueue" /\ load = Load.TWO_CLIENTS /\ PsRest /\ RsInit /\ SsInit /\ VsRest /\ RtRest /\ HdRest /\ CgRest /\ PlRest

FrameSpec == FrameInit /\ [][Next]_vars

\* the run loop keeps iterating: time passes, and every iteration ends with
\* the sweep
LiveSpec == Init /\ [][Next]_vars /\ WF_vars(Tick) /\ WF_vars(CleanupConnections)

DispatchInit == VsInit /\ PsRest /\ RsInit /\ SsInit /\ SmRest /\ RtRest /\ HdRest /\ CgRest /\ PlRest

DispatchSpec == DispatchInit /\ [][VsNext]_vars

RouterInit == RtInit /\ PsRest /\ RsInit /\ SsInit /\ SmRest /\ VsRest /\ HdRest /\ CgRest /\ PlRest

RouterSpec == RouterInit /\ [][RtNext]_vars

HandlerInit == HdInit /\ PsRest /\ RsInit /\ SsInit /\ SmRest /\ VsRest /\ RtRest /\ CgRest /\ PlRest

HandlerSpec == HandlerInit /\ [][HdNext]_vars

CgiInit ==
    CgInit /\ PsRest /\ RsInit /\ SsInit /\ SmRest /\ VsRest /\ RtRest /\ HdRest /\ PlRest

\* the operating system runs a process that can take a step
PollerInit ==
    PlInit /\ SmInit /\ load = Load.ANY_REQUEST /\ PsRest /\ RsInit /\ SsInit /\ VsRest /\ RtRest
           /\ HdRest /\ CgRest

PollerSpec == PollerInit /\ [][PlNext]_vars

CgiSpec == CgiInit /\ [][CgNext]_vars /\ WF_vars(CgParent) /\ WF_vars(CgChild)

(***************************************************************************)
(* Properties of the parser                                                *)
(***************************************************************************)
\* the parser has consumed the header block of the stream
ps_headers_consumed == ps_parser.state \notin {"RequestLine", "Headers"}

\* the stream declares a Content-Length above the cap
ps_declared_too_large ==
    /\ stream_headers_ok(ps_stream)
    /\ IsSome(stream_content_length(ps_stream))
    /\ Unwrap(stream_content_length(ps_stream)) > max_body_size

\* the last call was a parse that returned the body-size error
ps_size_error_reported == ps_last.op = "parse" /\ is_body_size_error(ps_last.err)

C5_ParserReportsOutcome ==
    (ps_rest = <<>> /\ ps_last.op = "parse") =>
        (IsSome(ps_last.request) \/ ps_last.err # NoError)

(***************************************************************************)
(* Properties of the serialized response                                   *)
(***************************************************************************)
\* the headers the serialized bytes carry
rs_out_headers == Headers_from_lines(stream_header_lines(Unwrap(rs_out))).headers

\* the bytes after the blank line that ends the headers
rs_out_body ==
    DropFirst(Unwrap(rs_out),
              Unwrap(find(Unwrap(rs_out), CRLF_BYTES \o CRLF_BYTES)) + 2 * Len(CRLF_BYTES))

\* the serialized bytes announce or use chunked framing
rs_out_chunked ==
    \/ rs_response.chunked
    \/ LET v == Headers_get(rs_out_headers, names.TRANSFER_ENCODING)
       IN  IsSome(v) /\ eq_ignore_ascii_case(Unwrap(v), Literal.CHUNKED)

\* C7: a serialized response never carries both chunked framing (or a
\* Transfer-Encoding: chunked header) and a Content-Length header.  A
\* response built from CGI output refutes it: the script's headers replace
\* the response's headers as they are, both headers included.
C7_ChunkedExcludesContentLength ==
    IsSome(rs_out) => ~(rs_out_chunked /\ Headers_contains(rs_out_headers, names.CONTENT_LENGTH))

\* C8: a serialized response whose status is 1xx, 204 or 304 has no bytes
\* after the blank line that ends its headers.  serialize_chunked refutes
\* it: it writes the chunk and the last-chunk marker whatever the status.
C8_NoBodyForBodilessStatus ==
    (IsSome(rs_out) /\ (rs_response.status \in 100..199 \/ rs_response.status \in {204, 304}))
        => rs_out_body = <<>>

(***************************************************************************)
(* Properties of the session manager                                       *)
(***************************************************************************)
\* the last call was get_or_create_session
ss_called == ss_last.op = "get_or_create_session"

\* the call returned the id of its cookie, created nothing and left the
\* number of stored sessions as it was
ss_same_session ==
    /\ ss_last.id = Unwrap(ss_last.cookie)
    /\ ~ss_last.created
    /\ Cardinality(DOMAIN ss_sessions) = ss_last.count_before

C10_FreshSessionId ==
    (ss_called /\ ss_last.created) => (~ss_last.issued_before /\ ~ss_last.replaced_live)

(***************************************************************************)
(* Properties of the engine                                                *)
(***************************************************************************)
\* the last step was one of the engine's handlers, which recorded the
\* connection table it found
sm_handled == sm_last.op \in {"handle_listener_event", "handle_read", "handle_write",
                              "cleanup_connections"}

\* the connection fd was in the table before the last step and is not now
sm_removed(fd) ==
    /\ sm_handled
    /\ fd \in DOMAIN sm_last.before
    /\ fd \notin DOMAIN sm.connections

\* the bytes begin with the status line of a response of the status
has_status(bytes, version, status) ==
    starts_with(bytes, write_status_line(Response_new(version, status)))

\* the connection has bytes of a 413 response left to write: what is left
\* ends with the body of the response, or is the end of that body
pending_413(connection) ==
    LET body == generate_error_response(413, "Http11").body
    IN  /\ connection.state = "Writing"
        /\ connection.write_buffer # <<>>
        /\ \/ ends_with(connection.write_buffer, body)
           \/ ends_with(body, connection.write_buffer)

\* the last step was a handle_write that wrote all the bytes the connection
\* had left
sm_wrote_all ==
    /\ sm_last.op = "handle_write"
    /\ sm_last.ok
    /\ sm_last.n > 0
    /\ sm_last.n = Len(sm_last.before[sm_last.fd].write_buffer)

\* C1: every connection in the table is registered with the poller for read
\* readiness alone while Reading or for write readiness alone while Writing,
\* and a descriptor with no connection in the table has no registration left.
C1_ExactlyOneRegistration ==
    \A fd \in Fds :
        IF fd \in DOMAIN sm.connections
        THEN \/ /\ sm.connections[fd].state = "Reading"
                /\ sm.registered[fd] = {"read"}
             \/ /\ sm.connections[fd].state = "Writing"
                /\ sm.registered[fd] = {"write"}
        ELSE sm.registered[fd] = {}

\* C2: when handle_write has written the whole of a response whose
\* keep-alive decision was true, the connection is still in the table, back
\* in Reading with empty buffers, and its parser is reset to RequestLine.
C2_KeepAliveConnectionKept ==
    (sm_wrote_all /\ sm_last.before[sm_last.fd].keep_alive)
    => /\ sm_last.fd \in DOMAIN sm.connections
       /\ sm.connections[sm_last.fd].state = "Reading"
       /\ sm.connections[sm_last.fd].read_buffer = <<>>
       /\ sm.connections[sm_last.fd].write_buffer = <<>>
       /\ sm.parsers[sm_last.fd].state = "RequestLine"
       /\ sm.parsers[sm_last.fd].buffer = <<>>

\* when the parser reports a body-size violation to handle_read, the
\* connection stays in the table, in Writing, with keep-alive disabled and a
\* 413 response queued
sm_413_queued ==
    (sm_last.op = "handle_read" /\ is_body_size_error(sm_last.parsed))
    => /\ sm_last.fd \in DOMAIN sm.connections
       /\ sm.connections[sm_last.fd].state = "Writing"
       /\ ~sm.connections[sm_last.fd].keep_alive
       /\ has_status(sm.connections[sm_last.fd].write_buffer, "Http11", 413)
       /\ pending_413(sm.connections[sm_last.fd])

\* the handle_write that writes the last bytes of a 413 response closes the
\* connection and leaves no registration
sm_413_closed_when_written ==
    (sm_wrote_all /\ pending_413(sm_last.before[sm_last.fd]))
    => /\ sm_last.fd \notin DOMAIN sm.connections
       /\ sm.registered[sm_last.fd] = {}

\* C4 as stated: the parser reporting a body-size violation, a 413 response is
\* queued with keep-alive disabled and the connection set to Writing; a
\* connection with bytes of a 413 response left is removed by nothing but the
\* handle_write that writes the last of them, and that handle_write removes it.
C4_AsStated ==
    /\ sm_413_queued
    /\ \A fd \in Fds :
          (sm_removed(fd) /\ pending_413(sm_last.before[fd]))
          => (sm_wrote_all /\ sm_last.fd = fd)
    /\ sm_413_closed_when_written

\* C4: the parser reporting a body-size violation, a 413 response is queued
\* with keep-alive disabled and the connection set to Writing; a connection
\* with bytes of a 413 response left is removed only by the handle_write that
\* writes the last of them, by a handle_write whose write fails, or by the
\* sweep once its deadline has passed; the handle_write that writes the last
\* bytes always removes it.
C4_PayloadTooLarge ==
    /\ sm_413_queued
    /\ \A fd \in Fds :
          (sm_removed(fd) /\ pending_413(sm_last.before[fd]))
          => \/ sm_wrote_all /\ sm_last.fd = fd
             \/ sm_last.op = "handle_write" /\ sm_last.fd = fd /\ ~sm_last.ok
             \/ /\ sm_last.op = "cleanup_connections"
                /\ is_timeout(sm_last.before[fd], time)
    /\ sm_413_closed_when_written

\* a 413 response was queued, written in more than one write, and the write
\* of its last bytes removed the connection
C4_Witness ==
    /\ sm_wrote_all
    /\ pending_413(sm_last.before[sm_last.fd])
    /\ ~has_status(sm_last.before[sm_last.fd].write_buffer, "Http11", 413)
    /\ ~sm_last.before[sm_last.fd].keep_alive
    /\ sm_last.fd \notin DOMAIN sm.connections

\* the path has a ".." component
has_parent_dir(path) ==
    \E i \in 1..Len(components(path)) : components(path)[i] = Literal.PARENT_DIR

\* the router resolves the request to a path beneath the server root
resolves_beneath_root(request) ==
    LET route_match == match_route_with_path(request)
        file_path == resolve_file_path(request, config.routes[Unwrap(route_match)])
    IN  /\ IsSome(route_match)
        /\ file_path.ok
        /\ starts_with(file_path.path, config.root_path)
        /\ ~has_parent_dir(file_path.path)

\* C6: for every request handle_read has parsed, the router resolves its path
\* beneath the server root, or the connection has a 403 or 404 response
\* queued for the client; a request whose path has a ".." component has the
\* 403 or 404 response queued.
C6_BeneathRootOrRejected ==
    (sm_last.op = "handle_read" /\ IsSome(sm_last.request))
    => LET request == Unwrap(sm_last.request)
           rejected ==
               /\ sm_last.fd \in DOMAIN sm.connections
               /\ \E status \in {403, 404} :
                     has_status(sm.connections[sm_last.fd].write_buffer,
                                request.version, status)
       IN  /\ resolves_beneath_root(request) \/ rejected
           /\ has_parent_dir(Request_path(request)) => rejected

(***************************************************************************)
(* Properties of the parser on chunked bodies                              *)
(***************************************************************************)
\* the streams of the model that are well-formed chunked requests
ChunkedStreams ==
    {Stream.POST_CHUNKED, Stream.POST_CHUNKED_TOO_LARGE, Stream.POST_CHUNKED_SIZED}

\* what parse returns when the whole stream is fed in one add_data call to a
\* parser with no cap to speak of
one_call(stream) == parse(add_data(with_max_body_size(Len(stream)), stream).p)

\* C18 as stated: for a well-formed chunked request, however its bytes are
\* split into add_data calls, no parse call reports a parse error, a parse
\* call made when all the bytes have been fed completes the request, and
\* the body of the request is the concatenation of the chunk payloads, the
\* body parse returns when the stream is fed in one call.
C18_ChunkedAnySplit ==
    (ps_stream \in ChunkedStreams /\ ps_last.op = "parse")
    => /\ ps_last.err.kind # "ParseError"
       /\ IsSome(ps_last.request)
          => Unwrap(ps_last.request).body = Unwrap(one_call(ps_stream).request).body
       /\ (ps_rest = <<>> /\ ps_last.err = NoError) => IsSome(ps_last.request)

\* C19 as stated: a chunked request whose decoded body is no longer than
\* max_body_size is never refused for its size, however its bytes are split
\* into add_data calls: once the parser has consumed the header block and
\* is reading chunks, neither add_data nor parse returns the body-size error.
C19_CapOnDecodedBody ==
    (/\ ps_stream \in ChunkedStreams
     /\ Len(Unwrap(one_call(ps_stream).request).body) <= ps_parser.max_body_size
     /\ ps_last.op \in {"add_data", "parse"}
     /\ ps_last.before.state = "ChunkedBody")
    => ~is_body_size_error(ps_last.err)

(***************************************************************************)
(* Properties of virtual-host selection                                    *)
(***************************************************************************)
\* the last step was a find_server_for_request
vs_found == vs_last.op = "find_server_for_request"

\* the Host header value with its port suffix removed, lowercased
vs_hostname == to_lowercase(split(Unwrap(vs_last.host), 58)[1])

\* the servers configured for the port of the last request whose lowercased
\* server_name is the hostname
vs_named(hostname) ==
    {i \in 1..Len(vs_servers) :
        /\ vs_last.port \in vs_servers[i].ports
        /\ to_lowercase(vs_servers[i].server_name) = hostname}

\* the first server in configuration order that lists the port of the last
\* request
vs_first == Min({i \in 1..Len(vs_servers) : vs_last.port \in vs_servers[i].ports})

sm_parse_error ==
    /\ sm_last.op = "handle_read"
    /\ sm_last.parsed.kind \in {"ParseError", "HttpError"}
    /\ ~(/\ sm_last.parsed.kind = "HttpError"
          /\ sm_last.parsed.msg \in {"exceeds maximum allowed size",
                                     "would exceed maximum allowed size"})

C14_InvalidMethodAnswered ==
    (sm_last.op = "handle_read" /\ sm_last.parsed = ParseError("Invalid method"))
    => /\ sm_last.fd \in DOMAIN sm.connections
       /\ sm.connections[sm_last.fd].state = "Writing"
       /\ \/ has_status(sm.connections[sm_last.fd].write_buffer, "Http11", 400)
          \/ has_status(sm.connections[sm_last.fd].write_buffer, "Http11", 405)

\* the request the last handle_read was about: the one the parser yielded,
\* or the one the parser holds while it waits for the body
sm_request ==
    IF IsSome(sm_last.request) THEN sm_last.request
    ELSE IF /\ sm_last.fd \in DOMAIN sm.parsers
            /\ sm.parsers[sm_last.fd].state = "Body"
    THEN sm.parsers[sm_last.fd].request
    ELSE None

\* the request matches a route whose method list is not empty and does not
\* hold the method of the request
sm_not_allowed(request) ==
    /\ IsSome(match_route(request))
    /\ config.routes[Unwrap(match_route(request))].methods # <<>>
    /\ ~is_method_allowed(request, config.routes[Unwrap(match_route(request))])

\* C15 as stated: once a client has sent the whole of a request whose method
\* the matched route does not list, and handle_read has read it without
\* error, the connection is Writing with a response of status 405; a POST
\* with no Content-Length and no body is such a request.
C15_MethodNotAllowed ==
    (/\ sm_last.op = "handle_read" /\ sm_last.ok
     /\ sockets[sm_last.fd].open
     /\ sockets[sm_last.fd].unsent = <<>> /\ sockets[sm_last.fd].inbound = <<>>
     /\ IsSome(sm_request)
     /\ sm_not_allowed(Unwrap(sm_request)))
    => /\ sm_last.fd \in DOMAIN sm.connections
       /\ sm.connections[sm_last.fd].state = "Writing"
       /\ has_status(sm.connections[sm_last.fd].write_buffer,
                     Unwrap(sm_request).version, 405)

\* C16 as stated: a handle_read that read at least one byte and left the
\* connection in the table has moved its deadline to client_timeout_secs
\* after the time of the read.  (A read of no byte closes the connection, so
\* a connection still in the table after handle_read had bytes read.)
C16_DeadlineRefreshed ==
    (sm_last.op = "handle_read" /\ sm_last.fd \in DOMAIN sm.connections)
    => sm.connections[sm_last.fd].deadline = time + client_timeout_secs

\* process_request selects the StaticFileHandler for the request and the
\* handler returns an error
sm_handler_failed(request) ==
    /\ IsSome(match_route_with_path(request))
    /\ LET route == config.routes[Unwrap(match_route_with_path(request))]
       IN  /\ resolve_file_path(request, route).ok
           /\ ~is_dir(resolve_file_path(request, route).path)
    /\ ~StaticFileHandler_handle(request).ok

\* C17 as stated: when the handler selected for a request returns an error,
\* the connection is Writing with a response of status 500 in its write
\* buffer after the handle_read that processed the request.
C17_HandlerErrorIs500 ==
    (/\ sm_last.op = "handle_read" /\ sm_last.ok
     /\ IsSome(sm_last.request)
     /\ sm_handler_failed(Unwrap(sm_last.request)))
    => /\ sm_last.fd \in DOMAIN sm.connections
       /\ sm.connections[sm_last.fd].state = "Writing"
       /\ has_status(sm.connections[sm_last.fd].write_buffer,
                     Unwrap(sm_last.request).version, 500)

\* C20 as stated: a handle_read whose read would block (the descriptor was
\* reported readable, no byte is waiting and the client has not closed)
\* leaves the connection in the table as it was, in phase Reading, with its
\* parser and its registration for read.
C20_WouldBlockKeepsConnection ==
    (sm_last.op = "handle_read" /\ sm_last.would_block)
    => /\ sm_last.fd \in DOMAIN sm.connections
       /\ sm_last.fd \in DOMAIN sm.parsers
       /\ sm.connections[sm_last.fd] = sm_last.before[sm_last.fd]
       /\ sm.connections[sm_last.fd].state = "Reading"
       /\ "read" \in sm.registered[sm_last.fd]

sm_closes ==
    /\ sm_last'.op \in {"handle_read", "handle_write"}
    /\ sm_last'.fd \in DOMAIN sm.connections
    /\ sm_last'.fd \notin DOMAIN sm'.connections

\* the step leaves the listener registered and the connection, the parser
\* and the registration of every descriptor but fd as they were
sm_frame(fd) ==
    /\ sm'.registered[listener_fd] = {"read"}
    /\ DOMAIN sm'.connections = DOMAIN sm.connections \ {fd}
    /\ DOMAIN sm'.parsers = DOMAIN sm.parsers \ {fd}
    /\ \A other \in Fds \ {fd} :
          /\ sm'.registered[other] = sm.registered[other]
          /\ other \in DOMAIN sm.connections
             => /\ sm'.connections[other] = sm.connections[other]
                /\ sm'.parsers[other] = sm.parsers[other]

\* C12: a handle_read or handle_write that ends in the close of its
\* connection (parse error, read or write error, end of file) removes that
\* connection and its parser only: the listener stays registered and every
\* other connection keeps its phase, buffers, parser and registration.
C12_OnlyThatConnection == [][sm_closes => sm_frame(sm_last'.fd)]_vars

\* a handle_read failed and closed its connection while another connection
\* was in the table, and that one has its response queued
C12_Witness ==
    /\ sm_last.op = "handle_read"
    /\ ~sm_last.ok
    /\ sm_removed(sm_last.fd)
    /\ \E other \in DOMAIN sm.connections :
          /\ sm.connections[other].state = "Writing"
          /\ has_status(sm.connections[other].write_buffer, "Http11", 200)

\* C22: the sweep that ends an iteration of the loop removes every
\* connection whose deadline has passed, with its parser and its poller
\* registrations, and leaves every other connection, its parser and its
\* registration as they were: after it no connection in the table is
\* expired.
C22_SweepRemovesExpired ==
    [][sm_last'.op = "cleanup_connections"
       => \A fd \in Fds :
             IF fd \in DOMAIN sm.connections /\ time >= sm.connections[fd].deadline
             THEN /\ fd \notin DOMAIN sm'.connections
                  /\ fd \notin DOMAIN sm'.parsers
                  /\ sm'.registered[fd] = {}
             ELSE /\ (fd \in DOMAIN sm'.connections) = (fd \in DOMAIN sm.connections)
                  /\ (fd \in DOMAIN sm'.parsers) = (fd \in DOMAIN sm.parsers)
                  /\ sm'.registered[fd] = sm.registered[fd]
                  /\ fd \in DOMAIN sm.connections
                     => /\ sm'.connections[fd] = sm.connections[fd]
                        /\ sm'.parsers[fd] = sm.parsers[fd]]_vars

\* a sweep removed an expired connection and kept one that was not expired
C22_Witness ==
    /\ sm_last.op = "cleanup_connections"
    /\ \E fd \in DOMAIN sm_last.before : fd \notin DOMAIN sm.connections
    /\ \E fd \in DOMAIN sm.connections : time < sm.connections[fd].deadline

\* C23 as stated: one handle_listener_event accepts every connection that
\* waits on the listener: when it has returned without error no connection
\* is left in the backlog, and each connection it put in the table has its
\* parser and a registration for read.
C23_AcceptsAllPending ==
    (sm_last.op = "handle_listener_event" /\ sm_last.ok)
    => /\ pending = 0
       /\ \A fd \in DOMAIN sm.connections \ DOMAIN sm_last.before :
             /\ fd \in DOMAIN sm.parsers
             /\ "read" \in sm.registered[fd]

\* C24: in every state a connection in phase Reading has an empty write
\* buffer, and a step that finds a connection in phase Writing and leaves it
\* in the table leaves its parser as it was or resets it: no byte is fed to
\* the parser of a connection that is Writing.
C24_ParserReuse ==
    [][/\ \A fd \in DOMAIN sm'.connections :
             sm'.connections[fd].state = "Reading"
             => sm'.connections[fd].write_buffer = <<>>
       /\ \A fd \in DOMAIN sm.connections \cap DOMAIN sm'.connections :
             sm.connections[fd].state = "Writing"
             => \/ sm'.parsers[fd] = sm.parsers[fd]
                \/ /\ sm'.parsers[fd] = reset(sm.parsers[fd])
                   /\ sm'.connections[fd].write_buffer = <<>>]_vars

\* a connection is Writing with part of its response written while its
\* client has sent bytes that the engine has not read
C24_Witness ==
    \E fd \in DOMAIN sm.connections :
       /\ sm.connections[fd].state = "Writing"
       /\ sm.connections[fd].write_buffer # <<>>
       /\ sockets[fd].wire # <<>>
       /\ sockets[fd].inbound # <<>>

(***************************************************************************)
(* Properties of the router                                                *)
(***************************************************************************)
\* the keys of the route map
rt_keys == {rt_routes[i].path : i \in DOMAIN rt_routes}

\* the keys that are a prefix of the path of the last call
rt_prefixes == {k \in rt_keys : starts_with(rt_last.path, k)}

\* the key of the route the last call chose, if any
rt_chosen ==
    IF IsSome(rt_last.route) THEN Some(rt_routes[Unwrap(rt_last.route)].path) ELSE None

\* the route map iterated in the order p, a permutation of its indices
rt_reordered(p) == [i \in DOMAIN rt_routes |-> rt_routes[p[i]]]

\* C25: match_route returns the route whose key equals the request path when
\* there is one, otherwise the route with the longest key that is a prefix of
\* the path, and no route exactly when no key is a prefix; every iteration
\* order of the route map gives the route of the same key.
C25_MatchRoute ==
    rt_last.op = "match_route" =>
        /\ rt_last.path \in rt_keys => rt_chosen = Some(rt_last.path)
        /\ rt_prefixes # {} =>
              /\ IsSome(rt_chosen)
              /\ Unwrap(rt_chosen) \in rt_prefixes
              /\ \A k \in rt_prefixes : Len(k) <= Len(Unwrap(rt_chosen))
        /\ rt_prefixes = {} <=> rt_chosen = None
        /\ \A p \in Permutations(DOMAIN rt_routes) :
              LET route == Router_match_route(rt_reordered(p), rt_last.path)
              IN  IF IsSome(route)
                  THEN rt_chosen = Some(rt_reordered(p)[Unwrap(route)].path)
                  ELSE rt_chosen = None

\* C25 witness: no key equals the path, two keys are a prefix of it, and the
\* route chosen is not the first prefix the iteration comes to
C25_Witness ==
    /\ rt_last.op = "match_route"
    /\ rt_last.path \notin rt_keys
    /\ Cardinality(rt_prefixes) >= 2
    /\ IsSome(rt_last.route)
    /\ \E i \in 1..(Unwrap(rt_last.route) - 1) : rt_routes[i].path \in rt_prefixes

\* C26: a key that does not itself end in '/' is matched to a path only on a
\* segment boundary: the key is the whole path, or the character of the path
\* right after the key is '/' ('/static' is not matched to '/staticfiles/x').
C26_BoundaryAligned ==
    (/\ rt_last.op = "match_route"
     /\ IsSome(rt_last.route)
     /\ Unwrap(rt_chosen)[Len(Unwrap(rt_chosen))] # 47)
    => \/ Unwrap(rt_chosen) = rt_last.path
       \/ rt_last.path[Len(Unwrap(rt_chosen)) + 1] = 47

\* the path of the last call without its first n bytes, as
\* resolve_file_path joins it to a directory
rt_joined(directory, n) ==
    LET relative_path == IF Len(rt_last.path) > n THEN DropFirst(rt_last.path, n) ELSE <<>>
    IN  IF relative_path = <<>> THEN resolve_path(directory)
        ELSE PathBuf_join(resolve_path(directory), sanitize_path(relative_path).path)

\* C27: for a request matched to a directory route, the resolved file path
\* is the directory joined with the request path after the key of the
\* matched route, whatever other keys are a prefix of the path and whatever
\* the iteration order of the route map.
C27_StripsMatchedKey ==
    (/\ rt_last.op = "resolve_file_path"
     /\ IsSome(rt_routes[Unwrap(rt_last.route)].directory)
     /\ rt_last.file.ok)
    => rt_last.file.path = rt_joined(Unwrap(rt_routes[Unwrap(rt_last.route)].directory),
                                     Len(Unwrap(rt_chosen)))

(***************************************************************************)
(* Properties of the choice of a handler and of the error pages            *)
(***************************************************************************)
\* the extension of the target of the last request maps to an interpreter:
\* it is the cgi_extension of the route or a key of the server's cgi_handlers
hd_maps_to_interpreter ==
    /\ IsSome(hd_last.file.extension)
    /\ \/ hd_last.route.cgi_extension = hd_last.file.extension
       \/ ext_with_dot(Unwrap(hd_last.file.extension)) \in hd_last.cgi_handlers

\* C28: on a route without a redirect, a target that is a file whose
\* extension maps to an interpreter goes to CGI whatever the method and the
\* upload_dir of the route, a target whose extension maps to none never goes
\* to CGI, and of the latter an allowed DELETE goes to Delete and a POST on
\* a route with an upload_dir goes to Upload.
C28_Precedence ==
    (hd_last.op = "process_request" /\ ~IsSome(hd_last.route.redirect)) =>
        /\ (hd_maps_to_interpreter /\ hd_last.file.is_valid_file)
              => hd_last.handler = "CgiHandler"
        /\ ~hd_maps_to_interpreter => hd_last.handler # "CgiHandler"
        /\ (/\ ~hd_maps_to_interpreter
            /\ hd_last.method = "DELETE"
            /\ hd_last.route.methods = <<>>) => hd_last.handler = "DeleteHandler"
        /\ (/\ ~hd_maps_to_interpreter
            /\ hd_last.method = "POST"
            /\ IsSome(hd_last.route.upload_dir)) => hd_last.handler = "UploadHandler"

\* C29: a request that comes to the handling of a directory is answered with
\* the default file of the route when it is configured and exists, otherwise
\* with a listing when listing is enabled, and otherwise with 403.
C29_DefaultFileFirst ==
    (/\ hd_last.op = "process_request"
     /\ hd_last.file.is_dir
     /\ hd_last.handler \in {"StaticFileHandler(default_file)",
                             "DirectoryListingHandler", "403"})
    => hd_last.handler =
          IF IsSome(hd_last.route.default_file) /\ hd_last.file.default_is_valid_file
          THEN "StaticFileHandler(default_file)"
          ELSE IF hd_last.route.directory_listing THEN "DirectoryListingHandler"
          ELSE "403"

\* the files, among those of the file system, that are the custom page of
\* the status of the last call and can be read
hd_custom_pages ==
    {f \in fs.files :
        /\ f.path \notin hd_last.unreadable
        /\ \E i \in 1..Len(hd_last.errors) :
              /\ hd_last.errors[i].code = to_string(hd_last.status_code)
              /\ f.path = resolve_path(hd_last.errors[i].filename)}

\* C30: generate_error_response never returns an error; its response has the
\* status asked for and Content-Type text/html; the body is the custom page
\* of the status when one is configured, exists and can be read, and in every
\* other case the built-in page with the numeric code and the reason phrase.
C30_ErrorPage ==
    hd_last.op = "generate_error_response" =>
        /\ hd_last.result.ok
        /\ hd_last.result.response.status = hd_last.status_code
        /\ hd_last.result.response.version = hd_last.version
        /\ Headers_get(hd_last.result.response.headers, names.CONTENT_TYPE)
              = Some(Literal.TEXT_HTML)
        /\ hd_last.result.response.body =
              IF hd_custom_pages # {}
              THEN (CHOOSE f \in hd_custom_pages : TRUE).content
              ELSE Literal.H1_OPEN \o to_string(hd_last.status_code) \o Literal.H1_CLOSE
                   \o Literal.P_OPEN \o reason_phrase(hd_last.status_code)
                   \o Literal.P_CLOSE

\* C30 witness: the custom page of the status is configured and exists but
\* cannot be read, and the built-in page is returned
C30_Witness ==
    /\ hd_last.op = "generate_error_response"
    /\ \E i \in 1..Len(hd_last.errors) :
          /\ hd_last.errors[i].code = to_string(hd_last.status_code)
          /\ resolve_path(hd_last.errors[i].filename) \in hd_last.unreadable
    /\ hd_last.result.ok
    /\ hd_last.result.response.body # <<>>
    /\ \A f \in fs.files : hd_last.result.response.body # f.content

\* the positions of the last output at which CRLF CRLF begins, counted from 0
hd_separators ==
    {i \in 0..(Len(hd_last.output) - 4) :
        SubSeq(hd_last.output, i + 1, i + 4) = CRLF_BYTES \o CRLF_BYTES}

\* C31: an output that contains CRLF CRLF is not refused for a missing
\* separator, and an output that is parsed is split at the first CRLF CRLF:
\* the body is every byte after it (none when the output ends with it) and
\* the status is that of the Status header, or 200 without one.
C31_SplitsAtFirstSeparator ==
    hd_last.op = "parse_cgi_output" =>
        /\ hd_separators # {}
              => hd_last.result.err # "CGI output missing header separator"
        /\ hd_last.result.ok =>
              /\ hd_separators # {}
              /\ hd_last.result.response.body
                    = DropFirst(hd_last.output, Min(hd_separators) + 4)
              /\ LET header_lines == lines(TakeFirst(hd_last.output, Min(hd_separators)))
                     status == Headers_get(Headers_from_lines(header_lines).headers,
                                           Literal.STATUS)
                 IN  hd_last.result.response.status =
                        IF IsSome(status) THEN Unwrap(parse_status_header(Unwrap(status)))
                        ELSE 200

\* the entries of cgi_handlers for the extension of the last script, the
\* extension written with its leading dot
hd_configured ==
    {h \in hd_last.cgi_handlers :
        /\ IsSome(hd_last.script.extension)
        /\ h.ext = ext_with_dot(Unwrap(hd_last.script.extension))}

\* C32: when cgi_handlers has an interpreter for the extension of the script
\* the child is the interpreter with the script path as its argument, and
\* the script is the command itself only when it has none.
C32_InterpreterSpawned ==
    hd_last.op = "spawn" =>
        /\ \A h \in hd_configured :
              hd_last.command = [cmd |-> h.interpreter, args |-> <<hd_last.script.path>>]
        /\ hd_last.command.cmd = hd_last.script.path => hd_configured = {}

(***************************************************************************)
(* Properties of the request line and of the header lines                  *)
(***************************************************************************)
\* the tokens of the request line of the stream
ps_request_line == split_whitespace(Head(split_lines(ps_stream)))

\* C33: the parser yields a Request only when the request line has one of
\* the nine methods and the version token HTTP/1.1.
C33_OnlyHttp11 ==
    (ps_last.op = "parse" /\ IsSome(ps_last.request)) =>
        /\ Len(ps_request_line) >= 3
        /\ IsSome(Method_from_str(ps_request_line[1]))
        /\ ps_request_line[3] = VersionNames.Http11

\* C34: a Request the parser yields has every header line of the stream,
\* split at its first ':' into the name and the trimmed value, so that a
\* stream with a header line without ':' or with an empty name yields none.
C34_HeadersAllOrError ==
    (ps_last.op = "parse" /\ IsSome(ps_last.request)) =>
        /\ stream_headers_ok(ps_stream)
        /\ \A i \in 1..Len(stream_header_lines(ps_stream)) :
              LET line == stream_header_lines(ps_stream)[i]
                  colon_pos == Unwrap(find_char(line, 58))
                  name == trim(TakeFirst(line, colon_pos))
                  value == trim(DropFirst(line, colon_pos + 1))
              IN  \E j \in 1..Len(Unwrap(ps_last.request).headers) :
                     /\ Unwrap(ps_last.request).headers[j].name = name
                     /\ \E k \in 1..Len(Unwrap(ps_last.request).headers[j].values) :
                           Unwrap(ps_last.request).headers[j].values[k] = value

\* the requests of a method that allows a body, with neither Content-Length
\* nor chunked encoding
UnsizedStreams == {Stream.POST_EMPTY, Stream.POST_UNSIZED}

\* the bytes of the stream after its header block
stream_body(stream) == DropFirst(stream, Len(stream_head(stream)) + 4)

\* C36: for a POST without Content-Length and without chunked encoding,
\* however the bytes are split into add_data calls, a Request that parse
\* yields has the bytes after the header block as its body, and a parse call
\* made when all the bytes have been fed completes the request, with an
\* empty body when there are no body bytes.
C36_UnsizedAnySplit ==
    (ps_stream \in UnsizedStreams /\ ps_last.op = "parse")
    => /\ IsSome(ps_last.request)
          => Unwrap(ps_last.request).body = stream_body(ps_stream)
       /\ (ps_rest = <<>> /\ ps_last.err = NoError) => IsSome(ps_last.request)

(***************************************************************************)
(* Properties of the engine: keep-alive and the tables                     *)
(***************************************************************************)
\* the Connection header of the request the last read yielded, lowercased
sm_connection_header ==
    LET conn == Headers_get(Unwrap(sm_last.request).headers, names.CONNECTION)
    IN  IF IsSome(conn) THEN Some(to_lowercase(Unwrap(conn))) ELSE None

\* C35: when the response to a request is queued the keep-alive flag of the
\* connection is false for Connection: close, true for Connection:
\* keep-alive (in any case of letters), and true for an HTTP/1.1 request
\* without the header.
C35_KeepAliveDecision ==
    (/\ sm_last.op = "handle_read" /\ sm_last.ok
     /\ IsSome(sm_last.request)
     /\ sm_last.fd \in DOMAIN sm.connections)
    => /\ sm.connections[sm_last.fd].state = "Writing"
       /\ sm_connection_header = Some(Literal.CLOSE)
             => ~sm.connections[sm_last.fd].keep_alive
       /\ sm_connection_header = Some(Literal.KEEP_ALIVE)
             => sm.connections[sm_last.fd].keep_alive
       /\ (sm_connection_header = None /\ Unwrap(sm_last.request).version = "Http11")
             => sm.connections[sm_last.fd].keep_alive

\* C35 witness: a response was queued for a request with Connection: close
\* and the flag of the connection is false
C35_Witness ==
    /\ sm_last.op = "handle_read" /\ sm_last.ok
    /\ IsSome(sm_last.request)
    /\ sm_last.fd \in DOMAIN sm.connections
    /\ sm.connections[sm_last.fd].state = "Writing"
    /\ sm_connection_header = Some(Literal.CLOSE)
    /\ ~sm.connections[sm_last.fd].keep_alive

(***************************************************************************)
(* Properties of the CGI executor                                          *)
(***************************************************************************)
\* C37: execute returns, with a Response or with a CgiError, for every child
\* that reads its stdin to the end or ignores it, writes its output and
\* exits, whatever the sizes of the body and of the output.
C37_ExecuteReturns == <>(cg.parent = "returned")

\* C38: a connection in the table whose deadline the clock can reach is
\* eventually out of the table, whatever its client does or leaves undone.
C38_EventuallyRemoved ==
    \A fd \in 1..(MaxConnections + 1) :
        (/\ fd \in DOMAIN sm.connections
         /\ sm.connections[fd].deadline <= MaxClock)
        ~> (fd \notin DOMAIN sm.connections)

\* C38 witness: the sweep removed a connection whose response the client had
\* not read
C38_Witness ==
    /\ sm_last.op = "cleanup_connections"
    /\ \E fd \in DOMAIN sm_last.before :
          /\ fd \notin DOMAIN sm.connections
          /\ sm_last.before[fd].state = "Writing"
          /\ sm_last.before[fd].write_buffer # <<>>

\* C39: after every listener event, client event and sweep the connection
\* table and the parser table have the same descriptors as their keys.
C39_TablesAgree ==
    sm_handled => DOMAIN sm.connections = DOMAIN sm.parsers

\* C39 witness: the read registration of a newly accepted socket failed, and
\* neither table has the descriptor
C39_Witness ==
    /\ sm_last.op = "handle_listener_event"
    /\ ~sm_last.ok
    /\ sm_last.fd \notin DOMAIN sm.connections
    /\ sm_last.fd \notin DOMAIN sm.parsers

\* the last two calls registered and then unregistered write interest in a
\* descriptor that was registered for read
pl_write_and_back ==
    /\ Len(pl.log) = 2
    /\ pl.log[1].op = "register_write"
    /\ pl.log[2].op = "unregister_write"
    /\ pl.log[1].fd = pl.log[2].fd
    /\ "read" \in pl.log[1].before

\* C40 as stated: on the epoll build a register_write followed by an
\* unregister_write of a descriptor that was registered for read leaves the
\* descriptor registered for read.
C40_EpollReadInterestKept ==
    (backend = "epoll" /\ pl_write_and_back)
    => "read" \in pl.registered[pl.log[2].fd]

====
